---- MODULE Spec2Model ----
(***************************************************************************)
(* Duties-checking engine of dappnode/validator-tracker.                   *)
(*                                                                         *)
(* The engine is the single worker DutiesChecker.Run: on every tick it     *)
(* reads the justified epoch, decides whether to run performChecks, and    *)
(* performChecks walks through the liveness, proposal and slashing         *)
(* evaluators, each of which blocks on one provider and then drives the    *)
(* notification state.  The worker's position is pc; one action is the     *)
(* code from one blocking evaluator call to the next.                      *)
(*                                                                         *)
(* Go slices of validator indices are modelled by the set of their         *)
(* elements: the providers build them from maps keyed by index, and the    *)
(* engine only filters them.                                               *)
(*                                                                         *)
(* Besides the program state there are observers.  Those of the last step  *)
(* (outcome, fetched, sent, calls, reportedNow, slashedNow) and the count  *)
(* of slashing alerts are always kept.  Three observers that remember more *)
(* than one step (scenario, completed/failedSince, reportedDuties) are     *)
(* kept only in the specification that watches them; elsewhere they stay   *)
(* as in Init.  So are the observers of one step that are costly to draw:  *)
(* which Notifier calls failed (undelivered, dropped: SpecDelivery) and    *)
(* what the block checks answered for one validator (sampled: SpecDuties). *)
(* SpecAlerts keeps the last liveness alert of the run (livenessTrail) and *)
(* shows in outcome a cycle whose notification policy could not be read.   *)
(*                                                                         *)
(* The earlier engines that keep a per-validator checkpoint (CheckedEpochs)*)
(* write their state only at fixed lines of one handler: a trigger draws   *)
(* the providers' answers, then the handler runs on them as one action     *)
(* (SpecJustified, SpecFinalized).  The functions of the attestation       *)
(* evaluator are operators, applied to drawn arguments by SpecCalls; for   *)
(* checkAttestations the operator returns the provider fetches of one call.*)
(*                                                                         *)
(* The goroutines of the program (main, the one that executes Run, the one *)
(* of handleShutdown) with the ticker and the signal are a machine of      *)
(* their own, SpecRun, in which performChecks is an invocation in flight;  *)
(* SpecRunFair adds the fairness of the scheduler and of the select.       *)
(***************************************************************************)
EXTENDS Integers, FiniteSets, Sequences, TLC

\* ------------------------------------------------------------------ bounds
MaxEpoch == 1
MaxDuties == 2

\* ---------------------------------------------------------------- universe
Validators == {0, 5, 9}
Epochs == 0..MaxEpoch
NoEpoch == MaxEpoch + 1
SlotsOf(e) == {e * MaxDuties + k : k \in 0..(MaxDuties - 1)}
Liveness == "liveness"
Proposal == "proposal"
Slashed == "slashed"
Notifications == {Liveness, Proposal, Slashed}
NoMap == [v \in {} |-> 0]
NoCycle == [phase |-> "idle", outcome |-> "init"]
NoCall == [fn |-> "none"]
NoResult == [done |-> FALSE]
BlockAnswers == {"proposed", "missed", "error"}
BlockResponses == {"block", "empty", "notFound", "failure"}

VARIABLES
    pc,                   \* position of Run / performChecks
    lastJustifiedEpoch,   \* DutiesChecker.lastJustifiedEpoch
    lastRunHadError,      \* DutiesChecker.lastRunHadError
    SlashedNotified,      \* DutiesChecker.SlashedNotified (map index -> bool)
    PreviouslyAllLive,    \* DutiesChecker.PreviouslyAllLive
    PreviouslyOffline,    \* DutiesChecker.PreviouslyOffline
    justifiedEpoch,       \* performChecks argument
    notificationsEnabled, \* performChecks local: the kinds mapped to true
    indices,              \* performChecks local
    offline,              \* performChecks local (checkLiveness result)
    allLive,              \* performChecks local (checkLiveness result)
    outcome,              \* how the last trigger ended, "running..." inside a cycle
    fetched,              \* answer of the last GetJustifiedEpoch (NoEpoch: error)
    sent,                 \* alerts handed to the Notifier by the last step
    calls,                \* provider calls issued by the last step
    reportedNow,          \* proposer duties (slots) put in an alert by the last step
    slashedNow,           \* answer of GetSlashedValidators in the last step
    slashedAlerts,        \* per validator: slashing alerts it appeared in
    watch,                \* which of the observers below is kept
    scenario,             \* progress along the offline={5}, {5,9}, {} trace
    completed,            \* epoch of the last error-free cycle, while every
                          \* epoch fetched since returned that same value
    failedSince,          \* a trigger ended in error since completed was set
    reportedDuties,       \* duties of the epoch under check already reported
    muted,                \* kinds whose latest edge or detection met the kind disabled
    undelivered,          \* positions in sent whose Notifier call returned an error
    dropped,              \* an undelivered alert of the epoch under check
    sampled,              \* a tracked validator and what the block checks of its
                          \* proposer duties answered in the last step
    livenessTrail,        \* the last liveness alert sent, and whether a liveness
                          \* evaluation ever ran with the kind disabled
    lastFinalizedEpoch,   \* DutiesChecker.lastFinalizedEpoch (attestation engine)
    CheckedEpochs,        \* DutiesChecker.CheckedEpochs (map index -> epoch)
    cycle,                \* what the last checkpointing cycle did
    call,                 \* a function of the program and its arguments
    result,               \* what the function returned, NoResult before the call
    mainAt,               \* position of main
    run,                  \* position of the goroutine that executes Run
    shutdownAt,           \* position of the goroutine of handleShutdown
    ticks,                \* ticks buffered in ticker.C (capacity 1)
    signals,              \* signals buffered in sigChan (capacity 1)
    ctxDone,              \* cancel() was called: ctx.Done() is closed
    wg,                   \* counter of main's sync.WaitGroup
    cycles,               \* the invocations of performChecks in flight
    writers,              \* goroutines that wrote a field of the DutiesChecker
    cancelledAt           \* where Run was when cancel() was called

engine == <<lastJustifiedEpoch, lastRunHadError, SlashedNotified,
            PreviouslyAllLive, PreviouslyOffline>>
locals == <<justifiedEpoch, notificationsEnabled, indices, offline, allLive>>
lastStep == <<outcome, fetched, sent, calls, reportedNow, slashedNow>>
history == <<slashedAlerts, watch, scenario, completed, failedSince,
             reportedDuties, muted, undelivered, dropped, sampled,
             livenessTrail>>
tracker == <<pc, lastRunHadError, SlashedNotified, PreviouslyAllLive,
             PreviouslyOffline, locals, lastStep, history>>
checkpoints == <<lastFinalizedEpoch, CheckedEpochs, cycle>>
functions == <<call, result>>
runloop == <<mainAt, run, shutdownAt, ticks, signals, ctxDone, wg, cycles,
            writers, cancelledAt>>
elsewhere == <<checkpoints, functions, runloop>>
vars == <<pc, engine, locals, lastStep, history, elsewhere>>

\* ------------------------------------------------------------------ alerts
\* NotifierPort.SendValidatorLivenessNot(validators, epoch, live)
LivenessNot(validators, epoch, live) ==
    [kind |-> Liveness, validators |-> validators, epoch |-> epoch, flag |-> live]

\* NotifierPort.SendBlockProposalNot(validators, epoch, proposed)
BlockProposalNot(validators, epoch, proposed) ==
    [kind |-> Proposal, validators |-> validators, epoch |-> epoch, flag |-> proposed]

\* NotifierPort.SendValidatorsSlashedNot(validators, epoch)
ValidatorsSlashedNot(validators, epoch) ==
    [kind |-> Slashed, validators |-> validators, epoch |-> epoch, flag |-> FALSE]

NoAlert ==
    [kind |-> "none", validators |-> {}, epoch |-> NoEpoch, flag |-> FALSE]

NoSample ==
    [validator |-> 0, answers |-> {"none"}]

NoTrail ==
    [last |-> "none", disabled |-> FALSE]

AlertsOf(alerts, kind) ==
    {i \in 1..Len(alerts) : alerts[i].kind = kind}

\* ------------------------------------------------------------------- Init
\* main: SlashedNotified empty, PreviouslyAllLive true, PreviouslyOffline false;
\* the epoch and the error flag are Go zero values.
InitEngine ==
    /\ pc = "select"
    /\ lastJustifiedEpoch = 0
    /\ lastRunHadError = FALSE
    /\ SlashedNotified = [v \in Validators |-> FALSE]
    /\ PreviouslyAllLive = TRUE
    /\ PreviouslyOffline = FALSE
    /\ justifiedEpoch = NoEpoch
    /\ notificationsEnabled = {}
    /\ indices = {}
    /\ offline = {}
    /\ allLive = FALSE
    /\ outcome = "init"
    /\ fetched = NoEpoch
    /\ sent = <<>>
    /\ calls = {}
    /\ reportedNow = {}
    /\ slashedNow = {}
    /\ slashedAlerts = [v \in Validators |-> 0]
    /\ scenario = 0
    /\ completed = NoEpoch
    /\ failedSince = FALSE
    /\ reportedDuties = {}
    /\ muted = {}
    /\ undelivered = {}
    /\ dropped = NoAlert
    /\ sampled = NoSample
    /\ livenessTrail = NoTrail
    /\ lastFinalizedEpoch = 0
    /\ CheckedEpochs = NoMap
    /\ cycle = NoCycle
    /\ result = NoResult
    /\ mainAt = "go"
    /\ run = "unstarted"
    /\ shutdownAt = "unstarted"
    /\ ticks = 0
    /\ signals = 0
    /\ ctxDone = FALSE
    /\ wg = 1
    /\ cycles = <<>>
    /\ writers = {}
    /\ cancelledAt = "never"

Init == InitEngine /\ watch = "none" /\ call = NoCall
InitScenario == InitEngine /\ watch = "scenario" /\ call = NoCall
InitEpochs == InitEngine /\ watch = "epochs" /\ call = NoCall
InitProposals == InitEngine /\ watch = "proposals" /\ call = NoCall
InitMuted == InitEngine /\ watch = "muted" /\ call = NoCall
InitDelivery == InitEngine /\ watch = "delivery" /\ call = NoCall
InitDuties == InitEngine /\ watch = "duties" /\ call = NoCall
InitAlerts == InitEngine /\ watch = "alerts" /\ call = NoCall

\* ------------------------------------------------- decisions of the engine
\* Mutants of the skip test: the error flag is not consulted; the comparison
\* is inverted.
EpochUnchangedIgnoringError(epoch, lastEpoch, hadError) ==
    epoch = lastEpoch

EpochChangedAndNoError(epoch, lastEpoch, hadError) ==
    epoch # lastEpoch /\ ~hadError

\* Run: the skip test on a successfully fetched epoch.
EpochUnchanged(epoch, lastEpoch, hadError) ==
    epoch = lastEpoch /\ ~hadError

\* Mutant of checkLiveness: a validator without a datum is passed over.
checkLivenessOfKnown(idx, livenessMap) ==
    LET off == {i \in idx : i \in DOMAIN livenessMap /\ ~livenessMap[i]}
    IN  [offline |-> off, online |-> (idx \cap DOMAIN livenessMap) \ off,
         allLive |-> off = {}]

\* checkLiveness: a validator without a datum, or reported not live, is offline.
checkLiveness(idx, livenessMap) ==
    LET off == {i \in idx : i \notin DOMAIN livenessMap \/ ~livenessMap[i]}
    IN  [offline |-> off, online |-> idx \ off, allLive |-> off = {}]

\* Mutant of the offline edge: the previous state is not consulted.
WentOfflineAnyState(off, previouslyAllLive) ==
    Cardinality(off) > 0

\* performChecks: 1 or more validators offline when all were previously live.
WentOffline(off, previouslyAllLive) ==
    Cardinality(off) > 0 /\ previouslyAllLive

\* Mutants of the back-online edge: the previous state is not consulted; the
\* liveness result is not consulted.
BackOnlineAnyState(isAllLive, previouslyOffline) ==
    isAllLive

BackOnlineAnyResult(isAllLive, previouslyOffline) ==
    previouslyOffline

\* performChecks: all validators online after 1 or more were offline.
BackOnline(isAllLive, previouslyOffline) ==
    isAllLive /\ previouslyOffline

\* Mutant of the policy test: every kind reads as enabled.
EnabledAlways(enabledKinds, kind) ==
    TRUE

\* performChecks: the notification map is consulted before each send; a nil
\* map (failed fetch) and a missing key both read as false.
Enabled(enabledKinds, kind) ==
    kind \in enabledKinds

\* beaconAttestantClient.GetSlashedValidators: the provider is queried with
\* make([]phase0.ValidatorIndex, len(indices)), i.e. len(indices) zeros, and
\* answers with the queried validators that are in a slashed state.
QueriedIndices(idx) ==
    {0 : i \in idx}

GetSlashedValidators(idx, chainSlashed) ==
    QueriedIndices(idx) \cap chainSlashed

\* Mutant of the slashing filter: nothing is filtered out.
ToNotifyAll(slashedList, notified) ==
    slashedList

\* performChecks: slashed validators that have not been notified before.
ToNotify(slashedList, notified) ==
    {i \in slashedList : ~notified[i]}

\* Mutants of the slashing ledger: nothing is recorded; the ledger is
\* rebuilt from the latest answer.
MarkNothing(slashedList, notified) ==
    notified

MarkOnlyLatest(slashedList, notified) ==
    [v \in Validators |-> v \in slashedList]

\* performChecks: a.SlashedNotified[index] = true for each of them.
MarkNotified(slashedList, notified) ==
    [v \in Validators |-> notified[v] \/ v \in slashedList]

\* checkProposals: a duty whose block check errs is in neither list.
ProposedBy(duties, answer) ==
    {d.ValidatorIndex : d \in {x \in duties : answer[x.Slot] = "proposed"}}

\* Mutant of the missed list: a duty whose block check errs counts as missed.
MissedOrUnknownBy(duties, answer) ==
    {d.ValidatorIndex : d \in {x \in duties : answer[x.Slot] # "proposed"}}

MissedBy(duties, answer) ==
    {d.ValidatorIndex : d \in {x \in duties : answer[x.Slot] = "missed"}}

\* Mutant of DidProposeBlock: a 404 is an error like any other.
DidProposeBlockNotFoundIsError(response) ==
    IF response = "block" THEN "proposed"
    ELSE IF response = "empty" THEN "missed"
    ELSE "error"

\* beaconAttestantClient.DidProposeBlock on the provider's response for the
\* slot: a 404 is (false, nil), any other failure is the error, a response
\* without a block or without data is (false, nil).
DidProposeBlock(response) ==
    IF response = "failure" THEN "error"
    ELSE IF response = "notFound" THEN "missed"
    ELSE IF response = "block" THEN "proposed"
    ELSE "missed"

\* checkProposals on answered proposer duties (lines 206-225): the lists, the
\* error it returns, and what DidProposeBlock answered for each slot.
checkProposals(proposerDuties, response) ==
    LET answer == [slot \in DOMAIN response |-> DidProposeBlock(response[slot])]
    IN  [proposed |-> ProposedBy(proposerDuties, answer),
         missed |-> MissedBy(proposerDuties, answer),
         err |-> FALSE,
         answers |-> answer]

\* --------------------------------------------------------------- observers
\* completed survives a fetch that returns the same epoch value.
ObserveEpoch(epoch) ==
    IF epoch = completed THEN completed ELSE NoEpoch

\* reportedDuties holds the duties of the epoch under check.
ObserveDuties(epoch) ==
    IF epoch = lastJustifiedEpoch THEN reportedDuties ELSE {}

Bump(count, who) ==
    [v \in Validators |-> IF v \in who /\ count[v] < 2 THEN count[v] + 1 ELSE count[v]]

\* muted follows the latest edge (or first detection) of a kind.
NextMuted(kind, happened, enabledKinds) ==
    IF watch # "muted" \/ ~happened THEN muted
    ELSE IF kind \in enabledKinds THEN muted \ {kind}
    ELSE muted \cup {kind}

\* The Notifier calls of a step that may return an error.
Failures(alerts) ==
    IF watch = "delivery" THEN SUBSET (1..Len(alerts)) ELSE {{}}

\* dropped holds an alert of the epoch under check.
ObserveDropped(epoch) ==
    IF epoch = lastJustifiedEpoch THEN dropped ELSE NoAlert

\* A liveness alert belongs to its edge: the next edge is another alert.
Forget(hadEdge) ==
    IF hadEdge /\ dropped.kind = Liveness THEN NoAlert ELSE dropped

\* dropped keeps the alert it holds; otherwise it takes one the step failed
\* to deliver.
Remembered(held, alerts, failed) ==
    IF watch # "delivery" \/ held # NoAlert \/ failed = {} THEN {held}
    ELSE {alerts[i] : i \in failed}

\* sampled takes any tracked validator, with the answers of the block checks
\* of its duties.
Samples(idx, duties, answer) ==
    IF watch # "duties" THEN {NoSample}
    ELSE {[validator |-> v,
           answers |-> {answer[d.Slot] : d \in {x \in duties : x.ValidatorIndex = v}}] :
            v \in idx}

\* livenessTrail follows the liveness alerts of a liveness evaluation, until
\* one runs with the kind disabled.
NextTrail(alerts, enabledKinds) ==
    IF watch # "alerts" THEN livenessTrail
    ELSE IF livenessTrail.disabled \/ Liveness \notin enabledKinds
    THEN [last |-> "none", disabled |-> TRUE]
    ELSE [last |-> IF alerts = <<>> THEN livenessTrail.last
                   ELSE IF alerts[Len(alerts)].flag THEN "online" ELSE "offline",
          disabled |-> FALSE]

\* outcome inside a cycle; the specification that watches the alerts keeps
\* whether GetNotificationsEnabled failed.
Running(policyErr) ==
    IF watch = "alerts" /\ policyErr THEN "runningWithoutPolicy" ELSE "running"

NextScenario(off, previouslyAllLive) ==
    IF watch # "scenario" THEN scenario
    ELSE IF previouslyAllLive /\ off = {5} THEN 1
    ELSE IF scenario = 1 /\ off = {5, 9} THEN 2
    ELSE IF scenario = 2 /\ off = {} THEN 3
    ELSE 0

\* Mutants of the error flag: the result of performChecks is dropped; the
\* comparison with nil is inverted.
HadErrorNever(err) ==
    FALSE

HadErrorInverted(err) ==
    ~err

\* Run: a.lastRunHadError = a.performChecks(ctx, justifiedEpoch) != nil
HadError(err) ==
    err

\* performChecks returns to Run, which stores the error flag (line 51); the
\* locals of performChecks are gone.
Return(err, epoch, seen, how) ==
    /\ pc' = "select"
    /\ lastRunHadError' = HadError(err)
    /\ justifiedEpoch' = NoEpoch
    /\ notificationsEnabled' = {}
    /\ indices' = {}
    /\ offline' = {}
    /\ allLive' = FALSE
    /\ outcome' = how
    /\ completed' = IF watch # "epochs" THEN completed
                    ELSE IF err THEN seen ELSE epoch
    /\ failedSince' = IF watch # "epochs" THEN failedSince
                      ELSE IF err THEN seen # NoEpoch ELSE FALSE

\* Mutant of the entry: the fetched epoch is not stored before the cycle.
EnterWithoutStoring(epoch) ==
    /\ ~EpochUnchanged(epoch, lastJustifiedEpoch, lastRunHadError)
    /\ lastJustifiedEpoch' = lastJustifiedEpoch
    /\ fetched' = epoch
    /\ reportedDuties' = IF watch = "proposals" THEN ObserveDuties(epoch)
                         ELSE reportedDuties
    /\ dropped' = IF watch = "delivery" THEN ObserveDropped(epoch) ELSE dropped

\* Run sets lastJustifiedEpoch and enters performChecks (lines 45-51).
Enter(epoch) ==
    /\ ~EpochUnchanged(epoch, lastJustifiedEpoch, lastRunHadError)
    /\ lastJustifiedEpoch' = epoch
    /\ fetched' = epoch
    /\ reportedDuties' = IF watch = "proposals" THEN ObserveDuties(epoch)
                         ELSE reportedDuties
    /\ dropped' = IF watch = "delivery" THEN ObserveDropped(epoch) ELSE dropped

PubkeysCalls ==
    {"GetJustifiedEpoch", "GetNotificationsEnabled", "GetValidatorPubkeys"}

\* Mutant of the calls up to the index resolution: the liveness query is
\* issued before the tracked set is tested for emptiness.
IndicesCallsThenLiveness ==
    PubkeysCalls \cup {"GetValidatorIndicesByPubkeys", "GetValidatorsLiveness"}

IndicesCalls ==
    PubkeysCalls \cup {"GetValidatorIndicesByPubkeys"}

\* ------------------------------------------------------------ Run: one tick
\* GetJustifiedEpoch fails (lines 38-43).
TickEpochError ==
    /\ pc = "select"
    /\ pc' = "select"
    /\ lastRunHadError' = TRUE
    /\ outcome' = "epochError"
    /\ fetched' = NoEpoch
    /\ sent' = <<>>
    /\ calls' = {"GetJustifiedEpoch"}
    /\ reportedNow' = {}
    /\ slashedNow' = {}
    /\ failedSince' = (watch = "epochs" /\ completed # NoEpoch)
    /\ UNCHANGED <<lastJustifiedEpoch, SlashedNotified, PreviouslyAllLive,
                   PreviouslyOffline, locals, slashedAlerts, watch, scenario,
                   completed, reportedDuties>>
    /\ undelivered' = {}
    /\ sampled' = NoSample
    /\ UNCHANGED <<muted, dropped, livenessTrail, elsewhere>>

\* The epoch is unchanged and the last run was successful (lines 45-48).
TickSkip ==
    /\ pc = "select"
    /\ \E epoch \in Epochs :
        /\ EpochUnchanged(epoch, lastJustifiedEpoch, lastRunHadError)
        /\ fetched' = epoch
        /\ completed' = ObserveEpoch(epoch)
    /\ pc' = "select"
    /\ outcome' = "skipped"
    /\ sent' = <<>>
    /\ calls' = {"GetJustifiedEpoch"}
    /\ reportedNow' = {}
    /\ slashedNow' = {}
    /\ UNCHANGED <<engine, locals, slashedAlerts, watch, scenario, failedSince,
                   reportedDuties>>
    /\ undelivered' = {}
    /\ sampled' = NoSample
    /\ UNCHANGED <<muted, dropped, livenessTrail, elsewhere>>

\* performChecks is entered and Brain.GetValidatorPubkeys fails (lines 62-71).
TickPubkeysError ==
    /\ pc = "select"
    /\ \E epoch \in Epochs :
        /\ Enter(epoch)
        /\ Return(TRUE, epoch, ObserveEpoch(epoch), "pubkeysError")
    /\ sent' = <<>>
    /\ calls' = PubkeysCalls
    /\ reportedNow' = {}
    /\ slashedNow' = {}
    /\ UNCHANGED <<SlashedNotified, PreviouslyAllLive, PreviouslyOffline,
                   slashedAlerts, watch, scenario>>
    /\ undelivered' = {}
    /\ sampled' = NoSample
    /\ UNCHANGED <<muted, livenessTrail, elsewhere>>

\* The brain knows no pubkeys (lines 73-76).
TickNoPubkeys ==
    /\ pc = "select"
    /\ \E epoch \in Epochs :
        /\ Enter(epoch)
        /\ Return(FALSE, epoch, ObserveEpoch(epoch), "noPubkeys")
    /\ sent' = <<>>
    /\ calls' = PubkeysCalls
    /\ reportedNow' = {}
    /\ slashedNow' = {}
    /\ UNCHANGED <<SlashedNotified, PreviouslyAllLive, PreviouslyOffline,
                   slashedAlerts, watch, scenario>>
    /\ undelivered' = {}
    /\ sampled' = NoSample
    /\ UNCHANGED <<muted, livenessTrail, elsewhere>>

\* Beacon.GetValidatorIndicesByPubkeys fails (lines 78-82).
TickIndicesError ==
    /\ pc = "select"
    /\ \E epoch \in Epochs :
        /\ Enter(epoch)
        /\ Return(TRUE, epoch, ObserveEpoch(epoch), "indicesError")
    /\ sent' = <<>>
    /\ calls' = IndicesCalls
    /\ reportedNow' = {}
    /\ slashedNow' = {}
    /\ UNCHANGED <<SlashedNotified, PreviouslyAllLive, PreviouslyOffline,
                   slashedAlerts, watch, scenario>>
    /\ undelivered' = {}
    /\ sampled' = NoSample
    /\ UNCHANGED <<muted, livenessTrail, elsewhere>>

\* None of the pubkeys is an active validator (lines 85-88).
TickNoIndices ==
    /\ pc = "select"
    /\ \E epoch \in Epochs :
        /\ Enter(epoch)
        /\ Return(FALSE, epoch, ObserveEpoch(epoch), "noIndices")
    /\ sent' = <<>>
    /\ calls' = IndicesCalls
    /\ reportedNow' = {}
    /\ slashedNow' = {}
    /\ UNCHANGED <<SlashedNotified, PreviouslyAllLive, PreviouslyOffline,
                   slashedAlerts, watch, scenario>>
    /\ undelivered' = {}
    /\ sampled' = NoSample
    /\ UNCHANGED <<muted, livenessTrail, elsewhere>>

\* The cycle reaches the evaluators with a non-empty tracked set (lines 50-88).
\* A failed GetNotificationsEnabled leaves the nil map: nothing is enabled.
TickStart ==
    /\ pc = "select"
    /\ \E epoch \in Epochs :
        /\ Enter(epoch)
        /\ justifiedEpoch' = epoch
        /\ completed' = ObserveEpoch(epoch)
    /\ \E policyErr \in BOOLEAN, policy \in SUBSET Notifications :
        /\ notificationsEnabled' = IF policyErr THEN {} ELSE policy
        /\ outcome' = Running(policyErr)
    /\ \E idx \in (SUBSET Validators) \ {{}} :
        indices' = idx
    /\ pc' = "liveness"
    /\ sent' = <<>>
    /\ calls' = IndicesCalls
    /\ reportedNow' = {}
    /\ slashedNow' = {}
    /\ failedSince' = (failedSince /\ completed' # NoEpoch)
    /\ UNCHANGED <<lastRunHadError, SlashedNotified, PreviouslyAllLive,
                   PreviouslyOffline, offline, allLive, slashedAlerts, watch,
                   scenario>>
    /\ undelivered' = {}
    /\ sampled' = NoSample
    /\ UNCHANGED <<muted, livenessTrail, elsewhere>>

\* ------------------------------------------------- performChecks: liveness
\* Beacon.GetValidatorsLiveness fails (lines 90-94, 176-179).
LivenessError ==
    /\ pc = "liveness"
    /\ Return(TRUE, justifiedEpoch, completed, "livenessError")
    /\ sent' = <<>>
    /\ calls' = {"GetValidatorsLiveness"}
    /\ reportedNow' = {}
    /\ slashedNow' = {}
    /\ UNCHANGED <<lastJustifiedEpoch, SlashedNotified, PreviouslyAllLive,
                   PreviouslyOffline, fetched, slashedAlerts, watch, scenario,
                   reportedDuties>>
    /\ undelivered' = {}
    /\ sampled' = NoSample
    /\ UNCHANGED <<muted, dropped, livenessTrail, elsewhere>>

\* checkLiveness answers and the two edges are evaluated (lines 90-122).
LivenessChecked ==
    /\ pc = "liveness"
    /\ \E known \in SUBSET indices : \E livenessMap \in [known -> BOOLEAN] :
        LET r == checkLiveness(indices, livenessMap)
            down == WentOffline(r.offline, PreviouslyAllLive)
            allLive1 == IF down THEN FALSE ELSE PreviouslyAllLive
            offline1 == IF down THEN TRUE ELSE PreviouslyOffline
            sent1 == IF down /\ Enabled(notificationsEnabled, Liveness)
                     THEN <<LivenessNot(r.offline, justifiedEpoch, FALSE)>>
                     ELSE <<>>
            up == BackOnline(r.allLive, offline1)
            sent2 == IF up /\ Enabled(notificationsEnabled, Liveness)
                     THEN <<LivenessNot(indices, justifiedEpoch, TRUE)>>
                     ELSE <<>>
        IN  /\ offline' = r.offline
            /\ allLive' = r.allLive
            /\ PreviouslyAllLive' = IF up THEN TRUE ELSE allLive1
            /\ PreviouslyOffline' = IF up THEN FALSE ELSE offline1
            /\ sent' = sent1 \o sent2
            /\ scenario' = NextScenario(r.offline, PreviouslyAllLive)
            /\ muted' = NextMuted(Liveness, down \/ up, notificationsEnabled)
            /\ undelivered' \in Failures(sent')
            /\ sampled' = NoSample
            /\ dropped' \in Remembered(Forget(down \/ up), sent', undelivered')
            /\ livenessTrail' = NextTrail(sent', notificationsEnabled)
    /\ pc' = "proposals"
    /\ calls' = {"GetValidatorsLiveness"}
    /\ reportedNow' = {}
    /\ slashedNow' = {}
    /\ UNCHANGED <<lastJustifiedEpoch, lastRunHadError, SlashedNotified,
                   justifiedEpoch, notificationsEnabled, indices, outcome,
                   fetched, slashedAlerts, watch, completed, failedSince,
                   reportedDuties>>
    /\ UNCHANGED elsewhere

\* ------------------------------------------------ performChecks: proposals
\* Beacon.GetProposerDuties fails (lines 125-129, 201-204).
ProposalsError ==
    /\ pc = "proposals"
    /\ Return(TRUE, justifiedEpoch, completed, "proposalsError")
    /\ sent' = <<>>
    /\ calls' = {"GetProposerDuties"}
    /\ reportedNow' = {}
    /\ slashedNow' = {}
    /\ UNCHANGED <<lastJustifiedEpoch, SlashedNotified, PreviouslyAllLive,
                   PreviouslyOffline, fetched, slashedAlerts, watch, scenario,
                   reportedDuties>>
    /\ undelivered' = {}
    /\ sampled' = NoSample
    /\ UNCHANGED <<muted, dropped, livenessTrail, elsewhere>>

\* checkProposals classifies the duties and the alerts are sent (lines 125-139).
ProposalsChecked ==
    /\ pc = "proposals"
    /\ \E slots \in SUBSET SlotsOf(justifiedEpoch) :
       \E proposer \in [slots -> indices] : \E answer \in [slots -> BlockAnswers] :
        LET proposerDuties == {[Slot |-> s, ValidatorIndex |-> proposer[s]] : s \in slots}
            proposed == ProposedBy(proposerDuties, answer)
            missed == MissedBy(proposerDuties, answer)
            sent1 == IF Cardinality(proposed) > 0 /\ Enabled(notificationsEnabled, Proposal)
                     THEN <<BlockProposalNot(proposed, justifiedEpoch, TRUE)>>
                     ELSE <<>>
            sent2 == IF Cardinality(missed) > 0 /\ Enabled(notificationsEnabled, Proposal)
                     THEN <<BlockProposalNot(missed, justifiedEpoch, FALSE)>>
                     ELSE <<>>
        IN  /\ sent' = sent1 \o sent2
            /\ reportedNow' = IF Enabled(notificationsEnabled, Proposal)
                              THEN {s \in slots : answer[s] # "error"}
                              ELSE {}
            /\ calls' = {"GetProposerDuties"} \cup
                        (IF slots = {} THEN {} ELSE {"DidProposeBlock"})
            /\ sampled' \in Samples(indices, proposerDuties, answer)
    /\ reportedDuties' = IF watch = "proposals" THEN reportedDuties \cup reportedNow'
                         ELSE reportedDuties
    /\ slashedNow' = {}
    /\ pc' = "slashed"
    /\ UNCHANGED <<engine, locals, outcome, fetched, slashedAlerts, watch,
                   scenario, completed, failedSince>>
    /\ undelivered' \in Failures(sent')
    /\ dropped' \in Remembered(dropped, sent', undelivered')
    /\ UNCHANGED <<muted, livenessTrail, elsewhere>>

\* ------------------------------------------------- performChecks: slashing
\* Beacon.GetSlashedValidators fails (lines 142-146).
SlashedError ==
    /\ pc = "slashed"
    /\ Return(TRUE, justifiedEpoch, completed, "slashedError")
    /\ sent' = <<>>
    /\ calls' = {"GetSlashedValidators"}
    /\ reportedNow' = {}
    /\ slashedNow' = {}
    /\ UNCHANGED <<lastJustifiedEpoch, SlashedNotified, PreviouslyAllLive,
                   PreviouslyOffline, fetched, slashedAlerts, watch, scenario,
                   reportedDuties>>
    /\ undelivered' = {}
    /\ sampled' = NoSample
    /\ UNCHANGED <<muted, dropped, livenessTrail, elsewhere>>

\* The slashed set is filtered through SlashedNotified (lines 142-163).
SlashedChecked ==
    /\ pc = "slashed"
    /\ \E chainSlashed \in SUBSET Validators :
        LET slashed == GetSlashedValidators(indices, chainSlashed)
            toNotify == ToNotify(slashed, SlashedNotified)
            doSend == Cardinality(toNotify) > 0 /\ Enabled(notificationsEnabled, Slashed)
        IN  /\ slashedNow' = slashed
            /\ SlashedNotified' = MarkNotified(slashed, SlashedNotified)
            /\ sent' = IF doSend
                       THEN <<ValidatorsSlashedNot(toNotify, justifiedEpoch)>>
                       ELSE <<>>
            /\ muted' = NextMuted(Slashed, toNotify # {}, notificationsEnabled)
            /\ slashedAlerts' = IF doSend THEN Bump(slashedAlerts, toNotify)
                                ELSE slashedAlerts
    /\ Return(FALSE, justifiedEpoch, completed, "ok")
    /\ calls' = {"GetSlashedValidators"}
    /\ reportedNow' = {}
    /\ UNCHANGED <<lastJustifiedEpoch, PreviouslyAllLive, PreviouslyOffline,
                   fetched, watch, scenario, reportedDuties>>
    /\ sampled' = NoSample
    /\ undelivered' \in Failures(sent')
    /\ dropped' \in Remembered(dropped, sent', undelivered')
    /\ UNCHANGED <<livenessTrail, elsewhere>>

\* ------------------------------------------------------------------- Next
Next ==
    \/ TickEpochError
    \/ TickSkip
    \/ TickPubkeysError
    \/ TickNoPubkeys
    \/ TickIndicesError
    \/ TickNoIndices
    \/ TickStart
    \/ LivenessError
    \/ LivenessChecked
    \/ ProposalsError
    \/ ProposalsChecked
    \/ SlashedError
    \/ SlashedChecked

Spec == Init /\ [][Next]_vars
SpecScenario == InitScenario /\ [][Next]_vars
SpecEpochs == InitEpochs /\ [][Next]_vars
SpecProposals == InitProposals /\ [][Next]_vars
SpecMuted == InitMuted /\ [][Next]_vars
SpecDelivery == InitDelivery /\ [][Next]_vars
SpecDuties == InitDuties /\ [][Next]_vars
SpecAlerts == InitAlerts /\ [][Next]_vars

\* ================================================ the attestation evaluator
\* Byte arrays are sequences of 0..255; Go indexes them from 0.
MaxBytes == 2
MaxCommittees == 64
AttestationWindow == 32

\* Go map lookup: the zero value for a missing key.
Lookup(map, key, zero) ==
    IF key \in DOMAIN map THEN map[key] ELSE zero

\* Mutant of isBitSet: bits counted from the most significant end of a byte.
isBitSetFromTop(bits, index) ==
    LET byteIndex == index \div 8
        bitIndex == index % 8
    IN  IF byteIndex >= Len(bits) THEN FALSE
        ELSE (bits[byteIndex + 1] \div (2 ^ (7 - bitIndex))) % 2 = 1

\* isBitSet: (bits[byteIndex] & (1 << bitIndex)) != 0, false past the end.
isBitSet(bits, index) ==
    LET byteIndex == index \div 8
        bitIndex == index % 8
    IN  IF byteIndex >= Len(bits) THEN FALSE
        ELSE (bits[byteIndex + 1] \div (2 ^ bitIndex)) % 2 = 1

\* computeBitPosition, the loop from i on: unset committees are passed over,
\* the validator's own committee ends the loop, any other adds its size.
RECURSIVE SumBefore(_, _, _, _)
SumBefore(i, validatorCommitteeIndex, committeeBits, committeeSizeMap) ==
    IF i >= MaxCommittees THEN 0
    ELSE IF ~isBitSet(committeeBits, i)
         THEN SumBefore(i + 1, validatorCommitteeIndex, committeeBits, committeeSizeMap)
    ELSE IF i = validatorCommitteeIndex THEN 0
    ELSE Lookup(committeeSizeMap, i, 0) +
         SumBefore(i + 1, validatorCommitteeIndex, committeeBits, committeeSizeMap)

\* Mutant of computeBitPosition: every committee below the validator's counts,
\* flagged in the attestation or not.
RECURSIVE SumAllBelow(_, _)
SumAllBelow(i, committeeSizeMap) ==
    IF i = 0 THEN 0
    ELSE Lookup(committeeSizeMap, i - 1, 0) + SumAllBelow(i - 1, committeeSizeMap)

computeBitPositionAllBelow(validatorCommitteeIndex, validatorIndexInCommittee, committeeBits, committeeSizeMap) ==
    SumAllBelow(validatorCommitteeIndex, committeeSizeMap) + validatorIndexInCommittee

computeBitPosition(validatorCommitteeIndex, validatorIndexInCommittee, committeeBits, committeeSizeMap) ==
    SumBefore(0, validatorCommitteeIndex, committeeBits, committeeSizeMap)
        + validatorIndexInCommittee

\* Mutant of the tests: the attested slot is not compared.
MatchesAnyDataSlot(duty, att, committeeSizeMap) ==
    /\ isBitSet(att.CommitteeBits, duty.CommitteeIndex)
    /\ isBitSet(att.AggregationBits,
                computeBitPosition(duty.CommitteeIndex, duty.ValidatorCommitteeIdx,
                                   att.CommitteeBits, committeeSizeMap))

\* checkDutyAttestation, the three tests on one attestation (lines 203-217).
Matches(duty, att, committeeSizeMap) ==
    /\ att.DataSlot = duty.Slot
    /\ isBitSet(att.CommitteeBits, duty.CommitteeIndex)
    /\ isBitSet(att.AggregationBits,
                computeBitPosition(duty.CommitteeIndex, duty.ValidatorCommitteeIdx,
                                   att.CommitteeBits, committeeSizeMap))

\* The inner loop over one slot's attestations from position k on; seen
\* collects the <<slot, position>> pairs the loop has looked at.
RECURSIVE ScanList(_, _, _, _, _, _)
ScanList(duty, attestations, committeeSizeMap, slot, k, seen) ==
    IF k > Len(attestations) THEN [index |-> 0, seen |-> seen]
    ELSE IF Matches(duty, attestations[k], committeeSizeMap)
         THEN [index |-> k, seen |-> seen \cup {<<slot, k>>}]
    ELSE ScanList(duty, attestations, committeeSizeMap, slot, k + 1,
                  seen \cup {<<slot, k>>})

\* Mutant of the scan: a match does not end it, the last match is returned.
RECURSIVE ScanSlotsToTheEnd(_, _, _, _, _)
ScanSlotsToTheEnd(duty, slotAttestations, committeeSizeMap, slot, seen) ==
    IF slot > duty.Slot + AttestationWindow
    THEN [found |-> FALSE, slot |-> slot, index |-> 0, examined |-> seen]
    ELSE LET attestations == Lookup(slotAttestations, slot, <<>>)
             all == seen \cup {<<slot, k>> : k \in 1..Len(attestations)}
             hits == {k \in 1..Len(attestations) :
                        Matches(duty, attestations[k], committeeSizeMap)}
             rest == ScanSlotsToTheEnd(duty, slotAttestations, committeeSizeMap,
                                       slot + 1, all)
         IN  IF rest.found \/ hits = {} THEN rest
             ELSE [found |-> TRUE, slot |-> slot,
                   index |-> CHOOSE k \in hits : \A j \in hits : j <= k,
                   examined |-> rest.examined]

\* The outer loop over the slots duty.Slot+1 .. duty.Slot+32 from slot on.
RECURSIVE ScanSlots(_, _, _, _, _)
ScanSlots(duty, slotAttestations, committeeSizeMap, slot, seen) ==
    IF slot > duty.Slot + AttestationWindow
    THEN [found |-> FALSE, slot |-> slot, index |-> 0, examined |-> seen]
    ELSE LET r == ScanList(duty, Lookup(slotAttestations, slot, <<>>),
                           committeeSizeMap, slot, 1, seen)
         IN  IF r.index > 0
             THEN [found |-> TRUE, slot |-> slot, index |-> r.index,
                   examined |-> r.seen]
             ELSE ScanSlots(duty, slotAttestations, committeeSizeMap, slot + 1, r.seen)

\* GetCommitteeSizeMap answers: a map, or an error.
SizesAnswer(committeeSizeMap) == [err |-> FALSE, sizes |-> committeeSizeMap]
SizesError == [err |-> TRUE, sizes |-> NoMap]

\* Mutant of checkDutyAttestation: a fetched map is not put in the cache.
checkDutyAttestationWithoutCaching(duty, slotAttestations, committeeSizeCache, sizesAnswer) ==
    IF duty.Slot \notin DOMAIN committeeSizeCache /\ sizesAnswer.err
    THEN [found |-> FALSE, slot |-> duty.Slot, index |-> 0, examined |-> {},
          sizesKnown |-> FALSE, committeeSizeCache |-> committeeSizeCache]
    ELSE LET committeeSizeMap == Lookup(committeeSizeCache, duty.Slot, sizesAnswer.sizes)
             r == ScanSlots(duty, slotAttestations, committeeSizeMap, duty.Slot + 1, {})
         IN  [found |-> r.found, slot |-> r.slot, index |-> r.index,
              examined |-> r.examined, sizesKnown |-> TRUE,
              committeeSizeCache |-> committeeSizeCache]

\* checkDutyAttestation: the committee sizes come from the cache or, failing
\* that, from GetCommitteeSizeMap, whose answer is sizesAnswer; an error there
\* ends the evaluation with false.
checkDutyAttestation(duty, slotAttestations, committeeSizeCache, sizesAnswer) ==
    IF duty.Slot \notin DOMAIN committeeSizeCache /\ sizesAnswer.err
    THEN [found |-> FALSE, slot |-> duty.Slot, index |-> 0, examined |-> {},
          sizesKnown |-> FALSE, committeeSizeCache |-> committeeSizeCache]
    ELSE LET committeeSizeMap == Lookup(committeeSizeCache, duty.Slot, sizesAnswer.sizes)
             r == ScanSlots(duty, slotAttestations, committeeSizeMap, duty.Slot + 1, {})
         IN  [found |-> r.found, slot |-> r.slot, index |-> r.index,
              examined |-> r.examined, sizesKnown |-> TRUE,
              committeeSizeCache |->
                  [s \in DOMAIN committeeSizeCache \cup {duty.Slot} |->
                      IF s = duty.Slot THEN committeeSizeMap ELSE committeeSizeCache[s]]]

\* The slots checkDutyAttestation scans for a duty.
WindowOf(duty) ==
    (duty.Slot + 1)..(duty.Slot + AttestationWindow)

\* Mutant of preloadSlotAttestations: a failed fetch ends the preload.
preloadUntilFailure(blocks, failed, minSlot, maxSlot) ==
    [slot \in {t \in (minSlot + 1)..(maxSlot + AttestationWindow) :
                 \A u \in (minSlot + 1)..t : u \notin failed} |->
        Lookup(blocks, slot, <<>>)]

\* preloadSlotAttestations: GetBlockAttestations for minSlot+1 .. maxSlot+32;
\* a slot whose fetch fails (failed) gets no entry, the others get the block's
\* list (blocks, empty where the block holds none).
preloadSlotAttestations(blocks, failed, minSlot, maxSlot) ==
    [slot \in ((minSlot + 1)..(maxSlot + AttestationWindow)) \ failed |->
        Lookup(blocks, slot, <<>>)]

\* Mutant of getSlotRangeForDuties: maxSlot is never raised.
getSlotRangeKeepingMax(duties) ==
    [minSlot |-> CHOOSE m \in {d.Slot : d \in duties} : \A d \in duties : m <= d.Slot,
     maxSlot |-> CHOOSE m \in {d.Slot : d \in duties} : \A d \in duties : m <= d.Slot]

\* getSlotRangeForDuties
getSlotRangeForDuties(duties) ==
    [minSlot |-> CHOOSE m \in {d.Slot : d \in duties} : \A d \in duties : m <= d.Slot,
     maxSlot |-> CHOOSE m \in {d.Slot : d \in duties} : \A d \in duties : d.Slot <= m]

\* preloadSlotAttestations: the slots GetBlockAttestations is called for, in
\* the order of the calls.
preloadFetches(minSlot, maxSlot) ==
    [i \in 1..(maxSlot + AttestationWindow - minSlot) |-> minSlot + i]

\* checkAttestations, the loop over the duties from position k on: the
\* GetCommitteeSizeMap calls it makes, in order, each with the slot asked and
\* whether it failed (those at the positions in failing do).  The cache goes
\* from one duty to the next.
RECURSIVE sizeFetches(_, _, _, _, _)
sizeFetches(duties, k, slotAttestations, committeeSizeCache, failing) ==
    IF k > Len(duties) THEN <<>>
    ELSE LET answer == IF k \in failing THEN SizesError
                       ELSE SizesAnswer(0 :> 10 @@ 1 :> 20 @@ 2 :> 5 @@ 3 :> 7)
             r == checkDutyAttestation(duties[k], slotAttestations,
                                       committeeSizeCache, answer)
             here == IF duties[k].Slot \in DOMAIN committeeSizeCache THEN <<>>
                     ELSE <<[slot |-> duties[k].Slot, err |-> answer.err]>>
         IN  here \o sizeFetches(duties, k + 1, slotAttestations,
                                 r.committeeSizeCache, failing)

\* checkAttestations on a non-empty list of duties (lines 118-129): the
\* preload, the cache it leaves, and the calls of the loop.
checkAttestations(duties, blocks, failed, failing) ==
    LET range == getSlotRangeForDuties({duties[k] : k \in 1..Len(duties)})
        slotAttestations ==
            preloadSlotAttestations(blocks, failed, range.minSlot, range.maxSlot)
    IN  [blockFetches |-> preloadFetches(range.minSlot, range.maxSlot),
         slotAttestations |-> slotAttestations,
         sizeFetches |-> sizeFetches(duties, 1, slotAttestations, NoMap, failing)]

\* wasCheckedThisEpoch: a.CheckedEpochs[index] == epoch
wasCheckedThisEpoch(checked, index, epoch) ==
    Lookup(checked, index, 0) = epoch

\* getValidatorsToCheck: the indices not checked this epoch, in input order.
getValidatorsToCheck(checked, idx, epoch) ==
    SelectSeq(idx, LAMBDA index : ~wasCheckedThisEpoch(checked, index, epoch))

\* ------------------------------------------------- arguments of the calls
SomeBytes == {0, 1, 10, 128, 255}
ByteArrays == UNION {[1..n -> SomeBytes] : n \in 0..MaxBytes}
Indexes == 0..(8 * MaxBytes + 8)

\* Committee sizes of a slot as GetCommitteeSizeMap answers them.
SizeMaps == {(0 :> 10 @@ 1 :> 20 @@ 2 :> 5 @@ 3 :> 7), (0 :> 10 @@ 3 :> 7)}

\* Committee bits: none; committee 2; committees 1 and 3; committees 1 and 2;
\* committees 1, 3 and 64.
CommitteeBitArrays == {<<>>, <<4>>, <<10>>, <<6>>, <<10, 0, 0, 0, 0, 0, 0, 0, 1>>}

\* Aggregation bits: none; bit 5; bit 22; bit 25; bit 37.
AggregationBitArrays == {<<>>, <<32>>, <<0, 0, 64>>, <<0, 0, 0, 2>>, <<0, 0, 0, 0, 32>>}

\* Attester duties as GetValidatorDutiesBatch answers them, one per validator.
DutyOf(v) ==
    IF v = 0 THEN [ValidatorIndex |-> 0, Slot |-> 100, CommitteeIndex |-> 2,
                   ValidatorCommitteeIdx |-> 5]
    ELSE IF v = 5 THEN [ValidatorIndex |-> 5, Slot |-> 100, CommitteeIndex |-> 3,
                        ValidatorCommitteeIdx |-> 2]
    ELSE [ValidatorIndex |-> v, Slot |-> 101, CommitteeIndex |-> 2,
          ValidatorCommitteeIdx |-> 5]

Attestation(dataSlot, committeeBits, aggregationBits) ==
    [DataSlot |-> dataSlot, CommitteeBits |-> committeeBits,
     AggregationBits |-> aggregationBits]

\* Attestations found in blocks: for slot 100 or 101, flagging committee 2
\* alone, 1 and 3, or 1 and 2, with an aggregation bit that is or is not the
\* validator's.
SomeAttestations ==
    {Attestation(100, <<4>>, <<32>>), Attestation(100, <<10>>, <<0, 0, 64>>),
     Attestation(101, <<4>>, <<32>>), Attestation(100, <<6>>, <<32>>),
     Attestation(100, <<6>>, <<0, 0, 0, 2>>), Attestation(100, <<4>>, <<>>)}

\* Blocks that hold them: the duty slot itself, the first, a middle and the
\* last slot of the window of slot 100, and the slot after it.
SomeBlockSlots == {100, 101, 105, 132, 133}

\* What the chain holds: up to two attestations, listed in block order.
Placements == SomeBlockSlots \X SomeAttestations
Inclusions == {<<>>} \cup {<<x>> : x \in Placements}
                      \cup {<<x, y>> : x \in Placements, y \in Placements}

\* The blocks of an inclusion list: slot -> attestations of that block.
BlocksOf(inclusions) ==
    [slot \in {inclusions[i][1] : i \in 1..Len(inclusions)} |->
        LET here == SelectSeq(inclusions, LAMBDA x : x[1] = slot)
        IN  [i \in 1..Len(here) |-> here[i][2]]]

\* Slots whose GetBlockAttestations fails.
FailedSets == SUBSET {101, 105}

IsBitSetCalls ==
    {[fn |-> "isBitSet", bits |-> b, index |-> i] : b \in ByteArrays, i \in Indexes}

ComputeBitPositionCalls ==
    {[fn |-> "computeBitPosition", validatorCommitteeIndex |-> c,
      validatorIndexInCommittee |-> k, committeeBits |-> b, committeeSizeMap |-> m] :
        c \in {0, 1, 2, 3, 64}, k \in {0, 2, 5}, b \in CommitteeBitArrays, m \in SizeMaps}

CheckDutyAttestationCalls ==
    {[fn |-> "checkDutyAttestation", duty |-> DutyOf(v), blocks |-> BlocksOf(x),
      failed |-> f, sizes |-> m] :
        v \in Validators, x \in Inclusions, f \in FailedSets,
        m \in {SizesAnswer(sizes) : sizes \in SizeMaps} \cup {SizesError}}

CheckedMaps == UNION {[known -> Epochs] : known \in SUBSET Validators}
IndexLists ==
    {<<>>} \cup {<<v>> : v \in Validators}
           \cup {x \in Validators \X Validators : x[1] # x[2]}
           \cup {x \in Validators \X Validators \X Validators :
                    x[1] # x[2] /\ x[1] # x[3] /\ x[2] # x[3]}

\* Liveness maps as the provider answers them: a datum for some validators,
\* tracked or not.
LivenessMaps == UNION {[known -> BOOLEAN] : known \in SUBSET Validators}

CheckLivenessCalls ==
    {[fn |-> "checkLiveness", indices |-> x, livenessMap |-> m] :
        x \in (SUBSET Validators) \ {{}}, m \in LivenessMaps}

\* Proposer duties of an epoch for tracked validators, and the provider's
\* response for the block of each duty slot.
CheckProposalsCalls ==
    UNION {{[fn |-> "checkProposals", epoch |-> e,
             proposerDuties |-> {[Slot |-> slot, ValidatorIndex |-> proposer[slot]] :
                                    slot \in slots},
             response |-> r] :
                proposer \in [slots -> Validators], r \in [slots -> BlockResponses]} :
           <<e, slots>> \in {x \in Epochs \X SUBSET (UNION {SlotsOf(e) : e \in Epochs}) :
                               x[2] # {} /\ x[2] \subseteq SlotsOf(x[1])}}

\* Duties of one cycle, in the order GetValidatorDutiesBatch lists them, and
\* the positions of the loop at which a GetCommitteeSizeMap call would fail.
CheckAttestationsCalls ==
    UNION {{[fn |-> "checkAttestations", duties |-> [k \in 1..Len(x) |-> DutyOf(x[k])],
             blocks |-> BlocksOf(b), failed |-> f, failing |-> g] :
                b \in {<<>>, <<<<105, Attestation(100, <<4>>, <<32>>)>>>>},
                f \in FailedSets, g \in SUBSET (1..Len(x))} :
           x \in IndexLists \ {<<>>}}

GetValidatorsToCheckCalls ==
    {[fn |-> "getValidatorsToCheck", checked |-> m, indices |-> x, epoch |-> e] :
        m \in CheckedMaps, x \in IndexLists, e \in Epochs}

Calls ==
    IsBitSetCalls \cup ComputeBitPositionCalls \cup CheckDutyAttestationCalls
        \cup GetValidatorsToCheckCalls \cup CheckLivenessCalls
        \cup CheckProposalsCalls \cup CheckAttestationsCalls

InitCalls == InitEngine /\ watch = "none" /\ call \in Calls

Returns(value) ==
    /\ ~result.done
    /\ result' = [done |-> TRUE, value |-> value]
    /\ UNCHANGED <<pc, engine, locals, lastStep, history, checkpoints, call,
                   runloop>>

IsBitSetCall ==
    /\ call.fn = "isBitSet"
    /\ Returns(isBitSet(call.bits, call.index))

ComputeBitPositionCall ==
    /\ call.fn = "computeBitPosition"
    /\ Returns(computeBitPosition(call.validatorCommitteeIndex,
                                  call.validatorIndexInCommittee,
                                  call.committeeBits, call.committeeSizeMap))

\* checkAttestations for one duty: the window is preloaded, the committee
\* size cache is new, the duty is evaluated (lines 118-123).
CheckDutyAttestationCall ==
    /\ call.fn = "checkDutyAttestation"
    /\ LET slotAttestations ==
               preloadSlotAttestations(call.blocks, call.failed,
                                       call.duty.Slot, call.duty.Slot)
       IN  Returns(checkDutyAttestation(call.duty, slotAttestations, NoMap, call.sizes))

GetValidatorsToCheckCall ==
    /\ call.fn = "getValidatorsToCheck"
    /\ Returns(getValidatorsToCheck(call.checked, call.indices, call.epoch))

\* checkLiveness on an answered liveness query (lines 181-193).
CheckLivenessCall ==
    /\ call.fn = "checkLiveness"
    /\ Returns(checkLiveness(call.indices, call.livenessMap))

\* checkProposals once GetProposerDuties has answered with duties.
CheckProposalsCall ==
    /\ call.fn = "checkProposals"
    /\ Returns(checkProposals(call.proposerDuties, call.response))

\* checkAttestations once the duties are fetched (lines 118-129).
CheckAttestationsCall ==
    /\ call.fn = "checkAttestations"
    /\ Returns(checkAttestations(call.duties, call.blocks, call.failed, call.failing))

NextCalls ==
    \/ IsBitSetCall
    \/ ComputeBitPositionCall
    \/ CheckDutyAttestationCall
    \/ GetValidatorsToCheckCall
    \/ CheckLivenessCall
    \/ CheckProposalsCall
    \/ CheckAttestationsCall

SpecCalls == InitCalls /\ [][NextCalls]_vars

\* ================================================ the checkpointing engines
\* Two earlier DutiesChecker engines keep CheckedEpochs.  A trigger of either
\* is two steps: the providers' answers to the trigger are drawn (cycle holds
\* them), then the handler runs on them from its first line to its return.
\* Answers the handler does not get to ask for are left at a fixed value.
Tracked == {5, 9}

\* Go map assignment of one value to a set of keys.
Assign(map, keys, value) ==
    [k \in DOMAIN map \cup keys |-> IF k \in keys THEN value ELSE map[k]]

\* getValidatorsToCheck on the set of the indices.
ToCheck(checked, idx, epoch) ==
    {index \in idx : ~wasCheckedThisEpoch(checked, index, epoch)}

Idle(how) ==
    [phase |-> "idle", outcome |-> how]

\* The epoch fetch fails, or it succeeds and the pubkey or the index fetch fails.
EarlyAnswers ==
    {[phase |-> "answers", epoch |-> NoEpoch, failure |-> "epoch"]}
    \cup {[phase |-> "answers", epoch |-> e, failure |-> f] :
            e \in Epochs, f \in {"pubkeys", "indices"}}

Answered ==
    cycle.phase = "answers"

\* The entries of CheckedEpochs a step has written.
Marked ==
    {v \in DOMAIN CheckedEpochs' :
        v \notin DOMAIN CheckedEpochs \/ CheckedEpochs'[v] # CheckedEpochs[v]}

\* --------------------------- chechLatestJustifiedEpoch (proposals, liveness)
JustifiedTrigger ==
    /\ cycle.phase = "idle"
    /\ \/ cycle' \in EarlyAnswers
       \/ \E e \in Epochs, idx \in SUBSET Tracked :
            LET asked == IF e = lastJustifiedEpoch THEN {}
                         ELSE ToCheck(CheckedEpochs, idx, e)
            IN  \E slots \in SUBSET (IF asked = {} THEN {} ELSE SlotsOf(e)) :
                \E proposer \in [slots -> asked], answer \in [slots -> BlockAnswers] :
                \E dutiesErr \in BOOLEAN, livenessErr \in BOOLEAN, known \in SUBSET asked :
                    /\ dutiesErr => (asked # {} /\ slots = {})
                    /\ livenessErr => (asked # {} /\ known = {})
                    /\ cycle' = [phase |-> "answers", epoch |-> e, failure |-> "none",
                                 indices |-> idx, dutiesErr |-> dutiesErr,
                                 duties |-> {[Slot |-> slot,
                                              ValidatorIndex |-> proposer[slot],
                                              answer |-> answer[slot]] : slot \in slots},
                                 livenessErr |-> livenessErr, known |-> known]
    /\ UNCHANGED <<tracker, lastJustifiedEpoch, lastFinalizedEpoch, CheckedEpochs,
                   functions, runloop>>

\* GetJustifiedEpoch fails (lines 37-41).
JustifiedEpochError ==
    /\ Answered
    /\ cycle.failure = "epoch"
    /\ cycle' = Idle("epochError")
    /\ UNCHANGED <<tracker, lastJustifiedEpoch, lastFinalizedEpoch, CheckedEpochs,
                   functions, runloop>>

\* The epoch is the one seen last (lines 42-45).
JustifiedSkip ==
    /\ Answered
    /\ cycle.failure # "epoch"
    /\ cycle.epoch = lastJustifiedEpoch
    /\ cycle' = Idle("skipped")
    /\ UNCHANGED <<tracker, lastJustifiedEpoch, lastFinalizedEpoch, CheckedEpochs,
                   functions, runloop>>

\* The epoch is stored, then GetValidatorPubkeys fails (lines 46-53).
JustifiedPubkeysError ==
    /\ Answered
    /\ cycle.failure = "pubkeys"
    /\ cycle.epoch # lastJustifiedEpoch
    /\ lastJustifiedEpoch' = cycle.epoch
    /\ cycle' = Idle("pubkeysError")
    /\ UNCHANGED <<tracker, lastFinalizedEpoch, CheckedEpochs, functions, runloop>>

\* The epoch is stored, then GetValidatorIndicesByPubkeys fails (lines 46-59).
JustifiedIndicesError ==
    /\ Answered
    /\ cycle.failure = "indices"
    /\ cycle.epoch # lastJustifiedEpoch
    /\ lastJustifiedEpoch' = cycle.epoch
    /\ cycle' = Idle("indicesError")
    /\ UNCHANGED <<tracker, lastFinalizedEpoch, CheckedEpochs, functions, runloop>>

\* getValidatorsToCheck leaves no validator (lines 62-66).
JustifiedNothingLeft ==
    /\ Answered
    /\ cycle.failure = "none"
    /\ cycle.epoch # lastJustifiedEpoch
    /\ ToCheck(CheckedEpochs, cycle.indices, cycle.epoch) = {}
    /\ lastJustifiedEpoch' = cycle.epoch
    /\ cycle' = Idle("nothingLeft")
    /\ UNCHANGED <<tracker, lastFinalizedEpoch, CheckedEpochs, functions, runloop>>

\* checkProposals: proposalChecked[duty.ValidatorIndex] = true for every duty
\* whose DidProposeBlock did not fail (lines 115-145).
proposalChecked(dutiesErr, duties) ==
    IF dutiesErr THEN {}
    ELSE {duty.ValidatorIndex : duty \in {d \in duties : d.answer # "error"}}

\* checkLiveness: livenessChecked[index] = true for every index the liveness
\* map has a datum for (lines 83-113).
livenessChecked(livenessErr, known, validatorIndices) ==
    IF livenessErr THEN {} ELSE validatorIndices \cap known

\* The validators with both flags set (lines 76-80).
BothChecked(validatorIndices, proposals, liveness) ==
    {index \in validatorIndices : index \in proposals /\ index \in liveness}

\* Both checks run and the validators with both flags are marked (lines 62-80).
JustifiedChecked ==
    /\ Answered
    /\ cycle.failure = "none"
    /\ cycle.epoch # lastJustifiedEpoch
    /\ LET validatorIndices == ToCheck(CheckedEpochs, cycle.indices, cycle.epoch)
           proposals == proposalChecked(cycle.dutiesErr, cycle.duties)
           liveness == livenessChecked(cycle.livenessErr, cycle.known, validatorIndices)
       IN  /\ validatorIndices # {}
           /\ CheckedEpochs' =
                Assign(CheckedEpochs,
                       BothChecked(validatorIndices, proposals, liveness), cycle.epoch)
    /\ lastJustifiedEpoch' = cycle.epoch
    /\ cycle' = Idle("checked")
    /\ UNCHANGED <<tracker, lastFinalizedEpoch, functions, runloop>>

NextJustified ==
    \/ JustifiedTrigger
    \/ JustifiedEpochError
    \/ JustifiedSkip
    \/ JustifiedPubkeysError
    \/ JustifiedIndicesError
    \/ JustifiedNothingLeft
    \/ JustifiedChecked

SpecJustified == Init /\ [][NextJustified]_vars

\* ------------------------------- checkLatestFinalizedEpoch (attestations)
\* What the blocks hold in this engine: nothing, or in the block of slot 105
\* the attestation that satisfies the duty of validator 5.
SomeBlocks ==
    {BlocksOf(<<>>), BlocksOf(<<<<105, Attestation(100, <<10>>, <<0, 0, 64>>)>>>>)}

\* The slots preloadSlotAttestations asks for.
Preloaded(duties) ==
    IF duties = {} THEN {}
    ELSE (getSlotRangeForDuties(duties).minSlot + 1)
            ..(getSlotRangeForDuties(duties).maxSlot + AttestationWindow)

\* checkProposals of this engine only logs; its provider calls are not drawn.
FinalizedTrigger ==
    /\ cycle.phase = "idle"
    /\ \/ cycle' \in EarlyAnswers
       \/ \E e \in Epochs, idx \in SUBSET Tracked :
            LET asked == IF e = lastFinalizedEpoch THEN {}
                         ELSE ToCheck(CheckedEpochs, idx, e)
            IN  \E dutiesErr \in BOOLEAN, returned \in SUBSET asked :
                LET duties == {DutyOf(v) : v \in returned}
                IN  \E blocks \in SomeBlocks, failed \in FailedSets :
                    \E sizesErr \in SUBSET {d.Slot : d \in duties} :
                        /\ dutiesErr => (asked # {} /\ returned = {})
                        /\ returned = {} => blocks = BlocksOf(<<>>)
                        /\ failed \subseteq Preloaded(duties)
                        /\ cycle' = [phase |-> "answers", epoch |-> e,
                                     failure |-> "none", indices |-> idx,
                                     dutiesErr |-> dutiesErr, duties |-> duties,
                                     blocks |-> blocks, failed |-> failed,
                                     sizesErr |-> sizesErr]
    /\ UNCHANGED <<tracker, lastJustifiedEpoch, lastFinalizedEpoch, CheckedEpochs,
                   functions, runloop>>

\* GetFinalizedEpoch fails (lines 37-41).
FinalizedEpochError ==
    /\ Answered
    /\ cycle.failure = "epoch"
    /\ cycle' = Idle("epochError")
    /\ UNCHANGED <<tracker, lastJustifiedEpoch, lastFinalizedEpoch, CheckedEpochs,
                   functions, runloop>>

\* The epoch is the one seen last (lines 42-45).
FinalizedSkip ==
    /\ Answered
    /\ cycle.failure # "epoch"
    /\ cycle.epoch = lastFinalizedEpoch
    /\ cycle' = Idle("skipped")
    /\ UNCHANGED <<tracker, lastJustifiedEpoch, lastFinalizedEpoch, CheckedEpochs,
                   functions, runloop>>

\* The epoch is stored, then GetValidatorPubkeys fails (lines 46-53).
FinalizedPubkeysError ==
    /\ Answered
    /\ cycle.failure = "pubkeys"
    /\ cycle.epoch # lastFinalizedEpoch
    /\ lastFinalizedEpoch' = cycle.epoch
    /\ cycle' = Idle("pubkeysError")
    /\ UNCHANGED <<tracker, lastJustifiedEpoch, CheckedEpochs, functions, runloop>>

\* The epoch is stored, then GetValidatorIndicesByPubkeys fails (lines 46-59).
FinalizedIndicesError ==
    /\ Answered
    /\ cycle.failure = "indices"
    /\ cycle.epoch # lastFinalizedEpoch
    /\ lastFinalizedEpoch' = cycle.epoch
    /\ cycle' = Idle("indicesError")
    /\ UNCHANGED <<tracker, lastJustifiedEpoch, CheckedEpochs, functions, runloop>>

\* getValidatorsToCheck leaves no validator (lines 62-66).
FinalizedNothingLeft ==
    /\ Answered
    /\ cycle.failure = "none"
    /\ cycle.epoch # lastFinalizedEpoch
    /\ ToCheck(CheckedEpochs, cycle.indices, cycle.epoch) = {}
    /\ lastFinalizedEpoch' = cycle.epoch
    /\ cycle' = Idle("nothingLeft")
    /\ UNCHANGED <<tracker, lastJustifiedEpoch, CheckedEpochs, functions, runloop>>

\* checkAttestations: GetValidatorDutiesBatch fails or returns no duty
\* (lines 108-116).
FinalizedNoDuties ==
    /\ Answered
    /\ cycle.failure = "none"
    /\ cycle.epoch # lastFinalizedEpoch
    /\ ToCheck(CheckedEpochs, cycle.indices, cycle.epoch) # {}
    /\ cycle.duties = {}
    /\ lastFinalizedEpoch' = cycle.epoch
    /\ cycle' = Idle(IF cycle.dutiesErr THEN "dutiesError" ELSE "noDuties")
    /\ UNCHANGED <<tracker, lastJustifiedEpoch, CheckedEpochs, functions, runloop>>

\* checkAttestations, the loop over the duties (lines 118-129): the verdict of
\* each duty, and the validators markCheckedThisEpoch is called for.  The
\* committee sizes of a slot are answered alike to every duty of the cycle, so
\* the size cache does not change a verdict.
attestedBy(duties, blocks, failed, sizesErr) ==
    LET range == getSlotRangeForDuties(duties)
        slotAttestations ==
            preloadSlotAttestations(blocks, failed, range.minSlot, range.maxSlot)
        sizesAnswer(slot) ==
            IF slot \in sizesErr THEN SizesError
            ELSE SizesAnswer(0 :> 10 @@ 1 :> 20 @@ 2 :> 5 @@ 3 :> 7)
    IN  {duty.ValidatorIndex :
            duty \in {d \in duties :
                checkDutyAttestation(d, slotAttestations, NoMap, sizesAnswer(d.Slot)).found}}

\* markCheckedThisEpoch is called for every duty of the loop (line 128).
markedThisEpoch(duties) ==
    {duty.ValidatorIndex : duty \in duties}

FinalizedChecked ==
    /\ Answered
    /\ cycle.failure = "none"
    /\ cycle.epoch # lastFinalizedEpoch
    /\ ToCheck(CheckedEpochs, cycle.indices, cycle.epoch) # {}
    /\ cycle.duties # {}
    /\ lastFinalizedEpoch' = cycle.epoch
    /\ CheckedEpochs' =
         Assign(CheckedEpochs,
                markedThisEpoch(cycle.duties), cycle.epoch)
    /\ cycle' = [phase |-> "idle", outcome |-> "checked",
                 attested |-> attestedBy(cycle.duties, cycle.blocks, cycle.failed,
                                         cycle.sizesErr)]
    /\ UNCHANGED <<tracker, lastJustifiedEpoch, functions, runloop>>

NextFinalized ==
    \/ FinalizedTrigger
    \/ FinalizedEpochError
    \/ FinalizedSkip
    \/ FinalizedPubkeysError
    \/ FinalizedIndicesError
    \/ FinalizedNothingLeft
    \/ FinalizedNoDuties
    \/ FinalizedChecked

SpecFinalized == Init /\ [][NextFinalized]_vars

\* ============================================ the goroutines around the loop
\* main starts one goroutine that executes Run and one, in handleShutdown,
\* that waits for a signal and cancels the context; the runtime feeds the
\* ticker.  Here every goroutine has a position and one action is the code of
\* one goroutine from one blocking point to the next.  performChecks is an
\* invocation in cycles, with the provider call it is waiting on as its
\* stage; what the evaluators compute is the engine above, here only the
\* writes of Run itself are kept and who executes the lines that write.
Worker == "worker"
Stages == <<"policy", "pubkeys", "indices", "liveness", "proposals", "slashed">>
StageAfter(stage) ==
    Stages[(CHOOSE k \in 1..Len(Stages) : Stages[k] = stage) + 1]

\* performChecks: the stages after which it can return nil (no pubkeys, no
\* indices, the end of the function).
ReturnsNilAfter == {"pubkeys", "indices", "slashed"}

\* performChecks: the stages after which it can return the provider's error.
ReturnsErrAfter == {"pubkeys", "indices", "liveness", "proposals", "slashed"}

\* performChecks: the stages after which fields of the DutiesChecker are
\* written (the liveness state, SlashedNotified).
WritesAfter == {"liveness", "slashed"}

\* Mutant of the select: ticks are taken wherever the goroutine of Run is.
SelectingAnywhere(position) ==
    position \in {"select", "epoch", "performChecks"}

\* Run: the channels are read only by the select at the top of the loop.
Selecting(position) ==
    position = "select"

\* Mutant of the select: the closed context is not a case of it.
CancelledNever(done) ==
    FALSE

\* Run: case <-ctx.Done().
Cancelled(done) ==
    done

Without(frames, i) ==
    [k \in 1..(Len(frames) - 1) |-> IF k < i THEN frames[k] ELSE frames[k + 1]]

beyond == <<pc, SlashedNotified, PreviouslyAllLive, PreviouslyOffline, locals,
            lastStep, history, checkpoints, functions>>

\* main: wg.Add(1) is done; the go statement.
MainGo ==
    /\ mainAt = "go"
    /\ mainAt' = "handleShutdown"
    /\ run' = "started"
    /\ UNCHANGED <<shutdownAt, ticks, signals, ctxDone, wg, cycles, writers,
                   cancelledAt, lastJustifiedEpoch, lastRunHadError, beyond>>

\* handleShutdown: signal.Notify and the go statement, then main is in wg.Wait.
MainHandleShutdown ==
    /\ mainAt = "handleShutdown"
    /\ mainAt' = "wait"
    /\ shutdownAt' = "receive"
    /\ UNCHANGED <<run, ticks, signals, ctxDone, wg, cycles, writers,
                   cancelledAt, lastJustifiedEpoch, lastRunHadError, beyond>>

\* main: wg.Wait returns, main returns and its deferred cancel runs.
MainExits ==
    /\ mainAt = "wait"
    /\ wg = 0
    /\ mainAt' = "exited"
    /\ ctxDone' = TRUE
    /\ UNCHANGED <<run, shutdownAt, ticks, signals, wg, cycles, writers,
                   cancelledAt, lastJustifiedEpoch, lastRunHadError, beyond>>

\* The operating system delivers SIGINT or SIGTERM; sigChan holds one.
SignalArrives ==
    /\ shutdownAt # "unstarted"
    /\ mainAt # "exited"
    /\ signals = 0
    /\ signals' = 1
    /\ UNCHANGED <<mainAt, run, shutdownAt, ticks, ctxDone, wg, cycles, writers,
                   cancelledAt, lastJustifiedEpoch, lastRunHadError, beyond>>

\* handleShutdown's goroutine: sig := <-sigChan.
ShutdownReceives ==
    /\ shutdownAt = "receive"
    /\ signals = 1
    /\ signals' = 0
    /\ shutdownAt' = "cancel"
    /\ UNCHANGED <<mainAt, run, ticks, ctxDone, wg, cycles, writers,
                   cancelledAt, lastJustifiedEpoch, lastRunHadError, beyond>>

\* handleShutdown's goroutine: cancel().
ShutdownCancels ==
    /\ shutdownAt = "cancel"
    /\ shutdownAt' = "done"
    /\ ctxDone' = TRUE
    /\ cancelledAt' = IF cycles = <<>> THEN run ELSE cycles[1].stage
    /\ UNCHANGED <<mainAt, run, ticks, signals, wg, cycles, writers,
                   lastJustifiedEpoch, lastRunHadError, beyond>>

\* The runtime's timer: ticker.C holds one tick, a tick that finds it full is
\* dropped.
TickerFires ==
    /\ run \in {"select", "epoch", "performChecks"}
    /\ ticks = 0
    /\ ticks' = 1
    /\ UNCHANGED <<mainAt, run, shutdownAt, signals, ctxDone, wg, cycles,
                   writers, cancelledAt, lastJustifiedEpoch, lastRunHadError,
                   beyond>>

\* Run: time.NewTicker, then the select.
RunStarts ==
    /\ run = "started"
    /\ run' = "select"
    /\ UNCHANGED <<mainAt, shutdownAt, ticks, signals, ctxDone, wg, cycles,
                   writers, cancelledAt, lastJustifiedEpoch, lastRunHadError,
                   beyond>>

\* Run: case <-ticker.C, then GetJustifiedEpoch is in flight.
RunTick ==
    /\ Selecting(run)
    /\ ticks = 1
    /\ ticks' = 0
    /\ run' = "epoch"
    /\ UNCHANGED <<mainAt, shutdownAt, signals, ctxDone, wg, cycles, writers,
                   cancelledAt, lastJustifiedEpoch, lastRunHadError, beyond>>

\* Run: case <-ctx.Done(): return; the deferred wg.Done of the goroutine.
RunDone ==
    /\ Selecting(run)
    /\ Cancelled(ctxDone)
    /\ run' = "returned"
    /\ wg' = wg - 1
    /\ UNCHANGED <<mainAt, shutdownAt, ticks, signals, ctxDone, cycles, writers,
                   cancelledAt, lastJustifiedEpoch, lastRunHadError, beyond>>

\* Run: GetJustifiedEpoch returned an error.
EpochError ==
    /\ run = "epoch"
    /\ lastRunHadError' = TRUE
    /\ writers' = writers \cup {Worker}
    /\ run' = "select"
    /\ UNCHANGED <<mainAt, shutdownAt, ticks, signals, ctxDone, wg, cycles,
                   cancelledAt, lastJustifiedEpoch, beyond>>

\* Run: the epoch is unchanged and the last run had no error.
EpochSkip ==
    /\ run = "epoch"
    /\ \E epoch \in Epochs :
        EpochUnchanged(epoch, lastJustifiedEpoch, lastRunHadError)
    /\ run' = "select"
    /\ UNCHANGED <<mainAt, shutdownAt, ticks, signals, ctxDone, wg, cycles,
                   writers, cancelledAt, lastJustifiedEpoch, lastRunHadError,
                   beyond>>

\* Run: the epoch is stored and performChecks is called; the caller is in the
\* call until it returns.
EpochNew ==
    /\ run = "epoch"
    /\ \E epoch \in Epochs :
        /\ ~EpochUnchanged(epoch, lastJustifiedEpoch, lastRunHadError)
        /\ lastJustifiedEpoch' = epoch
    /\ writers' = writers \cup {Worker}
    /\ cycles' = Append(cycles, [stage |-> Stages[1], by |-> Worker])
    /\ run' = "performChecks"
    /\ UNCHANGED <<mainAt, shutdownAt, ticks, signals, ctxDone, wg,
                   cancelledAt, lastRunHadError, beyond>>

\* performChecks: a provider call returned and the next one is issued.
CycleAdvances ==
    /\ \E i \in 1..Len(cycles) :
        /\ cycles[i].stage # Stages[Len(Stages)]
        /\ cycles' = [cycles EXCEPT ![i].stage = StageAfter(cycles[i].stage)]
        /\ writers' = IF cycles[i].stage \in WritesAfter
                      THEN writers \cup {cycles[i].by} ELSE writers
    /\ UNCHANGED <<mainAt, run, shutdownAt, ticks, signals, ctxDone, wg,
                   cancelledAt, lastJustifiedEpoch, lastRunHadError, beyond>>

\* performChecks returns an error; Run stores true and is back at the select.
CycleFails ==
    /\ \E i \in 1..Len(cycles) :
        /\ cycles[i].stage \in ReturnsErrAfter
        /\ cycles' = Without(cycles, i)
        /\ writers' = writers \cup {cycles[i].by}
    /\ lastRunHadError' = TRUE
    /\ run' = "select"
    /\ UNCHANGED <<mainAt, shutdownAt, ticks, signals, ctxDone, wg,
                   cancelledAt, lastJustifiedEpoch, beyond>>

\* performChecks returns nil; Run stores false and is back at the select.
CycleEnds ==
    /\ \E i \in 1..Len(cycles) :
        /\ cycles[i].stage \in ReturnsNilAfter
        /\ cycles' = Without(cycles, i)
        /\ writers' = writers \cup {cycles[i].by}
    /\ lastRunHadError' = FALSE
    /\ run' = "select"
    /\ UNCHANGED <<mainAt, shutdownAt, ticks, signals, ctxDone, wg,
                   cancelledAt, lastJustifiedEpoch, beyond>>

NextRun ==
    \/ MainGo
    \/ MainHandleShutdown
    \/ MainExits
    \/ SignalArrives
    \/ ShutdownReceives
    \/ ShutdownCancels
    \/ TickerFires
    \/ RunStarts
    \/ RunTick
    \/ RunDone
    \/ EpochError
    \/ EpochSkip
    \/ EpochNew
    \/ CycleAdvances
    \/ CycleFails
    \/ CycleEnds

SpecRun == Init /\ [][NextRun]_vars

\* Every goroutine that can take a step is scheduled, and a provider call in
\* flight returns: weak fairness of the steps of main, of handleShutdown's
\* goroutine and of Run.  A select with several ready cases picks one of them
\* at random, so a case that is ready again and again is taken: strong
\* fairness of the return.  Nothing is asked of the signal or of the ticker.
FairRun ==
    /\ WF_vars(MainGo)
    /\ WF_vars(MainHandleShutdown)
    /\ WF_vars(MainExits)
    /\ WF_vars(ShutdownReceives)
    /\ WF_vars(ShutdownCancels)
    /\ WF_vars(RunStarts)
    /\ WF_vars(EpochError \/ EpochSkip \/ EpochNew)
    /\ WF_vars(CycleAdvances \/ CycleFails \/ CycleEnds)
    /\ SF_vars(RunDone)

SpecRunFair == SpecRun /\ FairRun

\* =================================================================== claims
AllLiveState(previouslyAllLive, previouslyOffline) ==
    previouslyAllLive /\ ~previouslyOffline

SomeOfflineState(previouslyAllLive, previouslyOffline) ==
    ~previouslyAllLive /\ previouslyOffline

\* A step in which the liveness query succeeded and the edges were evaluated.
LivenessStep ==
    pc = "liveness" /\ pc' = "proposals"

MovedOffline ==
    /\ AllLiveState(PreviouslyAllLive, PreviouslyOffline)
    /\ SomeOfflineState(PreviouslyAllLive', PreviouslyOffline')

MovedOnline ==
    /\ SomeOfflineState(PreviouslyAllLive, PreviouslyOffline)
    /\ AllLiveState(PreviouslyAllLive', PreviouslyOffline')

OfflineAlerts(alerts) ==
    {i \in AlertsOf(alerts, Liveness) : ~alerts[i].flag}

OnlineAlerts(alerts) ==
    {i \in AlertsOf(alerts, Liveness) : alerts[i].flag}

EvaluatorCalls ==
    {"GetValidatorsLiveness", "GetProposerDuties", "DidProposeBlock",
     "GetSlashedValidators"}

Fatal(how) ==
    how \in {"epochError", "pubkeysError", "indicesError"}

\* C1: in every cycle whose liveness query succeeds, the state moves
\* ALL_LIVE -> SOME_OFFLINE exactly when the offline set of the cycle is
\* non-empty and the state before was ALL_LIVE; with the liveness kind enabled
\* exactly one offline alert is then sent (none otherwise), and its payload is
\* the offline set of the cycle.
C1_OfflineEdge ==
    [][LivenessStep =>
        /\ MovedOffline <=> (offline' # {} /\ PreviouslyAllLive)
        /\ Cardinality(OfflineAlerts(sent')) =
             IF MovedOffline /\ Liveness \in notificationsEnabled THEN 1 ELSE 0
        /\ \A i \in OfflineAlerts(sent') :
             sent'[i] = LivenessNot(offline', justifiedEpoch, FALSE)]_vars

C1_Witness ==
    /\ pc = "proposals"
    /\ offline = {5}
    /\ indices = {5, 9}
    /\ SomeOfflineState(PreviouslyAllLive, PreviouslyOffline)
    /\ sent = <<LivenessNot({5}, justifiedEpoch, FALSE)>>

\* C2: in every cycle whose liveness query succeeds, the state moves
\* SOME_OFFLINE -> ALL_LIVE exactly when no tracked validator is offline and
\* the state before was SOME_OFFLINE; with the liveness kind enabled exactly
\* one back-online alert is then sent (none otherwise), its payload being the
\* tracked indices of the cycle; a cycle that starts in ALL_LIVE and finds
\* every validator live sends no liveness alert.
C2_BackOnlineEdge ==
    [][LivenessStep =>
        /\ MovedOnline <=> (offline' = {} /\ PreviouslyOffline)
        /\ Cardinality(OnlineAlerts(sent')) =
             IF MovedOnline /\ Liveness \in notificationsEnabled THEN 1 ELSE 0
        /\ \A i \in OnlineAlerts(sent') :
             sent'[i] = LivenessNot(indices, justifiedEpoch, TRUE)
        /\ (AllLiveState(PreviouslyAllLive, PreviouslyOffline) /\ offline' = {})
             => sent' = <<>>]_vars

C2_Witness ==
    /\ pc = "proposals"
    /\ offline = {}
    /\ indices = {5, 9}
    /\ AllLiveState(PreviouslyAllLive, PreviouslyOffline)
    /\ sent = <<LivenessNot({5, 9}, justifiedEpoch, TRUE)>>

\* C3: while the state is SOME_OFFLINE, a cycle with a non-empty offline set
\* sends no liveness alert and stays in SOME_OFFLINE, whatever the members of
\* the set.  Along the trace offline={5} from ALL_LIVE, then {5,9}, then {}:
\* the first cycle sends the offline alert for {5}, the second sends nothing,
\* the third sends the back-online alert for all tracked indices and ends in
\* ALL_LIVE (alerts being sent when the liveness kind is enabled).
C3_SteadySilence ==
    [][LivenessStep =>
        /\ (SomeOfflineState(PreviouslyAllLive, PreviouslyOffline) /\ offline' # {})
             => /\ AlertsOf(sent', Liveness) = {}
                /\ SomeOfflineState(PreviouslyAllLive', PreviouslyOffline')
        /\ scenario' = 1 =>
             /\ SomeOfflineState(PreviouslyAllLive', PreviouslyOffline')
             /\ Liveness \in notificationsEnabled
                  => sent' = <<LivenessNot({5}, justifiedEpoch, FALSE)>>
        /\ scenario' = 2 =>
             /\ SomeOfflineState(PreviouslyAllLive', PreviouslyOffline')
             /\ sent' = <<>>
        /\ scenario' = 3 =>
             /\ AllLiveState(PreviouslyAllLive', PreviouslyOffline')
             /\ Liveness \in notificationsEnabled
                  => sent' = <<LivenessNot(indices, justifiedEpoch, TRUE)>>]_vars

C3_Witness ==
    /\ pc = "proposals"
    /\ scenario = 3
    /\ Liveness \in notificationsEnabled
    /\ AllLiveState(PreviouslyAllLive, PreviouslyOffline)
    /\ sent = <<LivenessNot(indices, justifiedEpoch, TRUE)>>

\* C4: over any sequence of cycles, each validator index appears in the
\* payload of at most one slashing alert handed to the notifier.
C4_SlashOnce ==
    \A v \in Validators : slashedAlerts[v] <= 1

\* The validator was alerted in an earlier cycle, is reported slashed again by
\* the cycle that just completed, and that cycle sent no alert.
C4_Witness ==
    /\ outcome = "ok"
    /\ \E v \in slashedNow : slashedAlerts[v] = 1
    /\ sent = <<>>

\* C5 (as claimed): every member of SlashedNotified is a validator for which a
\* slashing alert has been sent.
C5_NotifiedWasAlerted ==
    \A v \in Validators : SlashedNotified[v] => slashedAlerts[v] >= 1

InSlashedAlert(alerts, v) ==
    \E i \in AlertsOf(alerts, Slashed) : v \in alerts[i].validators

\* C5 (amended): in the first cycle in which the slashed query reports v, a
\* slashing alert containing v is sent in that cycle exactly when the slashed
\* kind is enabled in it; no cycle that reports v again sends one; the members
\* of SlashedNotified are the validators a successful slashed query reported.
C5_FirstDetection ==
    [][(pc = "slashed" /\ outcome' = "ok") =>
        /\ \A v \in slashedNow' :
            /\ ~SlashedNotified[v] =>
                 (InSlashedAlert(sent', v) <=> Slashed \in notificationsEnabled)
            /\ SlashedNotified[v] => ~InSlashedAlert(sent', v)
            /\ SlashedNotified'[v]
        /\ \A v \in Validators \ slashedNow' :
            /\ ~InSlashedAlert(sent', v)
            /\ SlashedNotified'[v] = SlashedNotified[v]]_vars

\* A first detection with the kind disabled: marked, never alerted.
C5_Witness ==
    /\ outcome = "ok"
    /\ \E v \in slashedNow : SlashedNotified[v] /\ slashedAlerts[v] = 0
    /\ sent = <<>>

\* C6: on every trigger whose epoch fetch succeeds, performChecks is skipped
\* exactly when the fetched epoch equals lastJustifiedEpoch and lastRunHadError
\* is false; a skip calls nothing else and changes no engine state, otherwise
\* performChecks is entered once, for the fetched epoch.
C6_SkipRule ==
    [][(pc = "select" /\ fetched' # NoEpoch) =>
        /\ outcome' = "skipped" <=>
             (fetched' = lastJustifiedEpoch /\ ~lastRunHadError)
        /\ outcome' = "skipped" =>
             /\ calls' = {"GetJustifiedEpoch"}
             /\ pc' = "select"
             /\ UNCHANGED engine
        /\ outcome' # "skipped" =>
             /\ "GetNotificationsEnabled" \in calls'
             /\ lastJustifiedEpoch' = fetched'
             /\ pc' = "liveness" => justifiedEpoch' = fetched']_vars

C6_Witness ==
    /\ outcome = "skipped"
    /\ fetched = 1
    /\ lastJustifiedEpoch = 1
    /\ ~lastRunHadError

\* C7: when the epoch fetch, the pubkey fetch or the index resolution fails,
\* the trigger issues no evaluator call and sends no alert, lastRunHadError
\* becomes true, and the next trigger whose epoch fetch succeeds enters
\* performChecks whatever the epoch value.
C7_FatalAbort ==
    [][pc = "select" =>
        /\ Fatal(outcome') =>
             /\ calls' \cap EvaluatorCalls = {}
             /\ sent' = <<>>
             /\ lastRunHadError'
             /\ pc' = "select"
        /\ (Fatal(outcome) /\ fetched' # NoEpoch) =>
             /\ outcome' # "skipped"
             /\ "GetNotificationsEnabled" \in calls']_vars

\* The index resolution failed for a newly fetched epoch.
C7_Witness ==
    /\ outcome = "indicesError"
    /\ lastRunHadError
    /\ fetched = 1
    /\ calls = IndicesCalls
    /\ sent = <<>>

\* C8 (as claimed): a trigger that aborts on a cycle-fatal error leaves
\* lastJustifiedEpoch, the liveness flags and SlashedNotified as they were.
C8_FatalChangesOnlyFlag ==
    [][(pc = "select" /\ Fatal(outcome')) =>
        UNCHANGED <<lastJustifiedEpoch, PreviouslyAllLive, PreviouslyOffline,
                    SlashedNotified>>]_vars

\* C8 (amended): such a trigger leaves the liveness flags and SlashedNotified
\* as they were; lastJustifiedEpoch is unchanged when the epoch fetch failed
\* and holds the fetched epoch when the pubkey or index fetch failed.
C8_FatalFrame ==
    [][(pc = "select" /\ Fatal(outcome')) =>
        /\ UNCHANGED <<PreviouslyAllLive, PreviouslyOffline, SlashedNotified>>
        /\ outcome' = "epochError" => UNCHANGED lastJustifiedEpoch
        /\ outcome' # "epochError" => lastJustifiedEpoch' = fetched']_vars

C8_Witness ==
    /\ outcome = "pubkeysError"
    /\ fetched = 1
    /\ lastJustifiedEpoch = 1
    /\ PreviouslyOffline
    /\ SlashedNotified[0]

\* C9 (as claimed): once a cycle for epoch E has completed without error, no
\* trigger starts the evaluators for E again while every fetched epoch value
\* is still E.
C9_NoReevaluation ==
    [][(pc = "select" /\ pc' = "liveness") => justifiedEpoch' # completed]_vars

\* C9 (amended): once a cycle for epoch E has completed without error, a
\* trigger starts the evaluators for E again while every fetched epoch value is
\* still E only if a trigger in between ended in error (a failed epoch fetch is
\* enough), which leaves lastRunHadError set.
C9_ReevaluationOnlyAfterError ==
    [][(pc = "select" /\ pc' = "liveness" /\ justifiedEpoch' = completed) =>
        (failedSince /\ lastRunHadError)]_vars

C9_Witness ==
    /\ pc = "liveness"
    /\ justifiedEpoch = completed
    /\ failedSince

\* C10: a proposer duty that has been put in a proposal alert is not put in
\* another one by a later cycle for its epoch.
C10_ProposalOnce ==
    [][reportedNow' \cap reportedDuties = {}]_vars

\* C20: a cycle in which a kind is disabled sends no alert of that kind, while
\* the liveness flags and SlashedNotified move exactly as the liveness result
\* and the slashed answer dictate, whatever the policy; and every liveness or
\* slashing alert belongs to an edge or a first detection of the step that
\* sends it, so an edge or detection that met its kind disabled is not
\* reported by a later cycle.
C20_DisabledStillAdvances ==
    [][/\ \A kind \in Notifications :
            (pc # "select" /\ kind \notin notificationsEnabled)
                => AlertsOf(sent', kind) = {}
       /\ LivenessStep =>
            /\ MovedOffline <=> (offline' # {} /\ PreviouslyAllLive)
            /\ MovedOnline <=> (offline' = {} /\ PreviouslyOffline)
            /\ (~MovedOffline /\ ~MovedOnline)
                 => UNCHANGED <<PreviouslyAllLive, PreviouslyOffline>>
            /\ OfflineAlerts(sent') # {} => MovedOffline
            /\ OnlineAlerts(sent') # {} => MovedOnline
       /\ (pc = "slashed" /\ outcome' = "ok") =>
            /\ SlashedNotified' =
                 [v \in Validators |-> SlashedNotified[v] \/ v \in slashedNow']
            /\ \A v \in Validators :
                 InSlashedAlert(sent', v) => (~SlashedNotified[v] /\ v \in slashedNow')]_vars

\* The offline edge met the liveness kind disabled; the kind is enabled in
\* this cycle, validators are still offline, and nothing is sent.
C20_Witness ==
    /\ pc = "proposals"
    /\ Liveness \in muted
    /\ Liveness \in notificationsEnabled
    /\ SomeOfflineState(PreviouslyAllLive, PreviouslyOffline)
    /\ offline # {}
    /\ sent = <<>>

\* ------------------------------------------- the attestation evaluator
\* The set bits of a byte, by repeated halving, and of a byte array, numbered
\* from the least significant bit of the first byte.
RECURSIVE BitsOfByte(_)
BitsOfByte(b) ==
    IF b = 0 THEN {}
    ELSE (IF b % 2 = 1 THEN {0} ELSE {}) \cup {j + 1 : j \in BitsOfByte(b \div 2)}

BitsOf(bits) ==
    UNION {{8 * (n - 1) + j : j \in BitsOfByte(bits[n])} : n \in 1..Len(bits)}

RECURSIVE SizeSum(_, _)
SizeSum(committees, committeeSizeMap) ==
    IF committees = {} THEN 0
    ELSE LET c == CHOOSE x \in committees : TRUE
         IN  Lookup(committeeSizeMap, c, 0) + SizeSum(committees \ {c}, committeeSizeMap)

\* The offset of the claim: sizes of the flagged committees below the duty's.
Offset(committeeIndex, position, committeeBits, committeeSizeMap) ==
    SizeSum({i \in 0..(MaxCommittees - 1) :
                i < committeeIndex /\ i \in BitsOf(committeeBits)}, committeeSizeMap)
        + position

\* An attestation that satisfies the duty, in the words of the claim.
Satisfies(att, duty, committeeSizeMap) ==
    /\ att.DataSlot = duty.Slot
    /\ duty.CommitteeIndex \in BitsOf(att.CommitteeBits)
    /\ Offset(duty.CommitteeIndex, duty.ValidatorCommitteeIdx, att.CommitteeBits,
              committeeSizeMap) \in BitsOf(att.AggregationBits)

\* The <<slot, position>> pairs of the attestations the cache holds for the
\* window: those of the blocks whose fetch did not fail.
Cached(duty, blocks, failed) ==
    UNION {{<<slot, k>> : k \in 1..Len(blocks[slot])} :
              slot \in (WindowOf(duty) \ failed) \cap DOMAIN blocks}

CachedMatches(duty, blocks, failed, committeeSizeMap) ==
    {x \in Cached(duty, blocks, failed) :
        Satisfies(blocks[x[1]][x[2]], duty, committeeSizeMap)}

\* Block order: an earlier slot, or the same slot and an earlier position.
NotAfter(x, y) ==
    x[1] < y[1] \/ (x[1] = y[1] /\ x[2] <= y[2])

DutyEvaluated ==
    call.fn = "checkDutyAttestation" /\ result.done

\* The blocks without the attestations that are for another slot or lie
\* outside the window of the duty.
Relevant(duty, blocks) ==
    [slot \in DOMAIN blocks \cap WindowOf(duty) |->
        SelectSeq(blocks[slot], LAMBDA att : att.DataSlot = duty.Slot)]

C12_AggregationOffset ==
    /\ (/\ call.fn = "computeBitPosition"
        /\ result.done
        /\ call.validatorCommitteeIndex \in BitsOf(call.committeeBits))
         => result.value = Offset(call.validatorCommitteeIndex,
                                  call.validatorIndexInCommittee,
                                  call.committeeBits, call.committeeSizeMap)
    /\ (DutyEvaluated /\ result.value.sizesKnown) =>
         \A x \in result.value.examined :
            LET att == call.blocks[x[1]][x[2]]
            IN  (/\ att.DataSlot = call.duty.Slot
                 /\ isBitSet(att.CommitteeBits, call.duty.CommitteeIndex))
                  => computeBitPosition(call.duty.CommitteeIndex,
                                        call.duty.ValidatorCommitteeIdx,
                                        att.CommitteeBits, call.sizes.sizes)
                       = Offset(call.duty.CommitteeIndex,
                                call.duty.ValidatorCommitteeIdx,
                                att.CommitteeBits, call.sizes.sizes)

C12_Witness ==
    /\ call.fn = "computeBitPosition"
    /\ call.committeeBits = <<10>>
    /\ call.committeeSizeMap = (0 :> 10 @@ 1 :> 20 @@ 2 :> 5 @@ 3 :> 7)
    /\ call.validatorCommitteeIndex = 3
    /\ call.validatorIndexInCommittee = 2
    /\ result.done
    /\ result.value = 22

\* C13: isBitSet(B, i) for i >= 0 is true exactly when i < 8*len(B) and bit
\* (i mod 8), counted from the least significant, of byte B[i div 8] is 1; past
\* the end of B it is false.
C13_BitTest ==
    (call.fn = "isBitSet" /\ result.done) =>
        /\ result.value = (call.index < 8 * Len(call.bits)
                           /\ call.index \in BitsOf(call.bits))
        /\ call.index >= 8 * Len(call.bits) => result.value = FALSE

\* Bit 1 of the second byte.
C13_Witness ==
    /\ call.fn = "isBitSet"
    /\ call.bits = <<128, 10>>
    /\ call.index = 9
    /\ result.done
    /\ result.value = TRUE

\* C14: when the cache holds a match in the window, the scan ends at the
\* first one in block order (lowest slot, first position in its list) and has
\* looked at exactly the cached attestations up to it; duty slot 100, committee
\* 2, position 5 with a match in the block of slot 105 is attested at 105.
C14_FirstMatchWins ==
    (DutyEvaluated /\ result.value.found) =>
        LET stop == <<result.value.slot, result.value.index>>
            hits == CachedMatches(call.duty, call.blocks, call.failed, call.sizes.sizes)
        IN  /\ stop \in hits
            /\ \A x \in hits : NotAfter(stop, x)
            /\ result.value.examined =
                 {x \in Cached(call.duty, call.blocks, call.failed) : NotAfter(x, stop)}

\* The scenario, with a second match later in the window.
C14_Witness ==
    /\ DutyEvaluated
    /\ call.duty = DutyOf(0)
    /\ call.failed = {}
    /\ call.blocks = (105 :> <<Attestation(100, <<4>>, <<32>>)>>
                      @@ 132 :> <<Attestation(100, <<4>>, <<32>>)>>)
    /\ result.value.found
    /\ result.value.slot = 105
    /\ result.value.examined = {<<105, 1>>}

\* The blocks whose fetch did not fail.
Fetched(blocks, failed) ==
    [slot \in DOMAIN blocks \ failed |-> blocks[slot]]

\* C15: when GetBlockAttestations fails for slots of the window, the answer
\* is the one those slots would give if their blocks held no attestation: the
\* other slots are scanned, the duty is attested when one of them holds a match
\* and missed when none does (the committee sizes of the slot being known).
C15_SoftFetchErrors ==
    (DutyEvaluated /\ call.failed \cap WindowOf(call.duty) # {}) =>
        /\ result.value =
             checkDutyAttestation(call.duty,
                 preloadSlotAttestations(Fetched(call.blocks, call.failed), {},
                                         call.duty.Slot, call.duty.Slot),
                 NoMap, call.sizes)
        /\ ~call.sizes.err =>
            /\ result.value.found <=>
                 \E x \in Cached(call.duty, call.blocks, {}) :
                    /\ x[1] \notin call.failed
                    /\ Satisfies(call.blocks[x[1]][x[2]], call.duty, call.sizes.sizes)
            /\ ~result.value.found =>
                 result.value.examined =
                    {x \in Cached(call.duty, call.blocks, {}) : x[1] \notin call.failed}

\* The fetch of slot 101 fails, the block of slot 105 holds the match.
C15_Witness ==
    /\ DutyEvaluated
    /\ call.duty = DutyOf(0)
    /\ call.failed = {101}
    /\ call.blocks = (101 :> <<Attestation(100, <<4>>, <<32>>)>>
                      @@ 105 :> <<Attestation(100, <<6>>, <<0, 0, 0, 2>>)>>)
    /\ ~call.sizes.err
    /\ result.value.found
    /\ result.value.slot = 105

\* C19: getValidatorsToCheck(indices, E) returns, in input order, exactly the
\* validators that CheckedEpochs does not record as checked for E; a validator
\* with no entry is returned, for E = 0 too.
C19_RecheckFilter ==
    (call.fn = "getValidatorsToCheck" /\ result.done) =>
        result.value =
            SelectSeq(call.indices,
                      LAMBDA v : ~(v \in DOMAIN call.checked /\ call.checked[v] = call.epoch))


\* C16: in checkAttestations a validator is marked checked for the epoch only
\* if, in that cycle, the committee-size fetch for its duty slot and every
\* attestation fetch for the slots of its duty window succeeded; otherwise its
\* checkpoint is left unchanged.
C16_HeldBackOnFetchErrors ==
    [][\A v \in Marked :
          /\ DutyOf(v).Slot \notin cycle.sizesErr
          /\ cycle.failed \cap WindowOf(DutyOf(v)) = {}]_vars

\* C17: in chechLatestJustifiedEpoch CheckedEpochs[v] is set to the epoch only
\* in a cycle in which the liveness query succeeded and returned a datum for v
\* and none of the DidProposeBlock checks for v's proposer duties returned an
\* error; in every other case CheckedEpochs[v] keeps its previous value.
C17_ErrorFreeCheckpoint ==
    [][\A v \in Marked :
          /\ CheckedEpochs'[v] = cycle.epoch
          /\ ~cycle.livenessErr
          /\ v \in cycle.known
          /\ \A duty \in cycle.duties :
                duty.ValidatorIndex = v => duty.answer # "error"]_vars

\* C18: after a cycle of chechLatestJustifiedEpoch for epoch E in which every
\* provider call succeeded and returned data for every validator,
\* CheckedEpochs[v] = E for every validator v of the cycle's set to check,
\* the validators without a proposer duty in E included.
C18_SuccessfulCheckRecorded ==
    [][( /\ Answered
         /\ cycle.failure = "none"
         /\ cycle.epoch # lastJustifiedEpoch
         /\ ~cycle.dutiesErr
         /\ ~cycle.livenessErr
         /\ \A duty \in cycle.duties : duty.answer # "error"
         /\ ToCheck(CheckedEpochs, cycle.indices, cycle.epoch) \subseteq cycle.known )
       => \A v \in ToCheck(CheckedEpochs, cycle.indices, cycle.epoch) :
             Lookup(CheckedEpochs', v, 0) = cycle.epoch]_vars


\* A step in which a Notifier call returned an error.
DeliveryFailed ==
    undelivered' # {}

\* C21: when a Notifier send returns an error, performChecks still performs
\* every remaining evaluation of the cycle, updates the liveness state and
\* SlashedNotified as if the alert had been delivered, returns no error, and
\* the same alert is not sent again by any later cycle.
C21_DeliveryFailuresIgnored ==
    [][/\ (DeliveryFailed /\ pc = "liveness") =>
            /\ pc' = "proposals"
            /\ MovedOffline <=> (offline' # {} /\ PreviouslyAllLive)
            /\ MovedOnline <=> (offline' = {} /\ PreviouslyOffline)
       /\ (DeliveryFailed /\ pc = "proposals") => pc' = "slashed"
       /\ (DeliveryFailed /\ pc = "slashed") =>
            /\ outcome' = "ok"
            /\ ~lastRunHadError'
            /\ SlashedNotified' =
                 [v \in Validators |-> SlashedNotified[v] \/ v \in slashedNow']
       /\ \A i \in 1..Len(sent') :
            sent'[i] # Forget(MovedOffline \/ MovedOnline)]_vars


\* C22: when GetValidatorsLiveness fails, the liveness state is unchanged and
\* no liveness alert is sent; when GetSlashedValidators fails, SlashedNotified
\* is unchanged and no slashing alert is sent; in both cases the cycle is
\* marked errored, so that the next trigger whose epoch fetch succeeds runs
\* performChecks again.
C22_EvaluatorErrorsHoldBack ==
    [][/\ (pc = "liveness" /\ outcome' = "livenessError") =>
            /\ UNCHANGED <<PreviouslyAllLive, PreviouslyOffline>>
            /\ AlertsOf(sent', Liveness) = {}
            /\ lastRunHadError'
            /\ pc' = "select"
       /\ (pc = "slashed" /\ outcome' = "slashedError") =>
            /\ UNCHANGED SlashedNotified
            /\ AlertsOf(sent', Slashed) = {}
            /\ lastRunHadError'
            /\ pc' = "select"
       /\ (/\ pc = "select"
           /\ outcome \in {"livenessError", "slashedError"}
           /\ fetched' # NoEpoch) =>
            /\ outcome' # "skipped"
            /\ "GetNotificationsEnabled" \in calls']_vars

\* The slashed query failed in a cycle for the epoch fetched; the offline edge
\* of that cycle stands, and the slashing ledger is as it was.
C22_Witness ==
    /\ outcome = "slashedError"
    /\ lastRunHadError
    /\ fetched = lastJustifiedEpoch
    /\ SomeOfflineState(PreviouslyAllLive, PreviouslyOffline)
    /\ SlashedNotified[0]


\* The liveness map with every missing datum of the queried validators
\* answered "not live".
NotLiveWhereMissing(idx, livenessMap) ==
    [v \in idx \cup DOMAIN livenessMap |->
        IF v \in DOMAIN livenessMap THEN livenessMap[v] ELSE FALSE]

\* C23: in checkLiveness every queried validator for which the liveness map
\* has no entry is in the offline set and not in the online set and makes
\* allLive false; the result, and with it the offline edge, is the one of the
\* same query with those validators reported not live.
C23_MissingDatumIsOffline ==
    (result.done /\ call.fn = "checkLiveness") =>
        /\ \A v \in call.indices \ DOMAIN call.livenessMap :
            /\ v \in result.value.offline
            /\ v \notin result.value.online
            /\ ~result.value.allLive
        /\ result.value.offline =
             {v \in call.indices :
                ~NotLiveWhereMissing(call.indices, call.livenessMap)[v]}
        /\ result.value.online = call.indices \ result.value.offline
        /\ result.value.allLive <=> result.value.offline = {}
        /\ \A previouslyAllLive \in BOOLEAN :
             WentOffline(result.value.offline, previouslyAllLive) <=>
                (previouslyAllLive /\
                 \E v \in call.indices :
                    ~NotLiveWhereMissing(call.indices, call.livenessMap)[v])

\* Validator 5 is reported live, validator 9 has no datum.
C23_Witness ==
    /\ result.done
    /\ call.fn = "checkLiveness"
    /\ call.indices = {5, 9}
    /\ call.livenessMap = (5 :> TRUE)
    /\ result.value.offline = {9}
    /\ result.value.online = {5}
    /\ ~result.value.allLive


\* A step in which the slashed query succeeded and the cycle returned.
SlashedStep ==
    pc = "slashed" /\ outcome' = "ok"

\* C26: GetSlashedValidators(indices) restricts its provider query to exactly
\* the given indices, so in every cycle the slashed set, every slashing alert
\* payload and every member added to SlashedNotified is a subset of that
\* cycle's tracked validator indices.
C26_SlashedAreTracked ==
    [][SlashedStep =>
        /\ QueriedIndices(indices) = indices
        /\ slashedNow' \subseteq indices
        /\ \A i \in AlertsOf(sent', Slashed) : sent'[i].validators \subseteq indices
        /\ \A v \in Validators :
             (SlashedNotified'[v] /\ ~SlashedNotified[v]) => v \in indices]_vars

\* C27: every full cycle of performChecks that completes calls the
\* persistence collaborator (ValidatorStorage) to upsert the epoch status of
\* every tracked validator of the cycle, after the evaluators and the
\* notification state machine have run.
C27_PersistedEveryCycle ==
    [][SlashedStep => "UpsertValidatorEpochStatus" \in calls']_vars

\* C28: across any sequence of triggers and cycles SlashedNotified never loses
\* a member, and it is modified only by adding the validators a successful
\* slashed query returned.
C28_SlashedNotifiedMonotone ==
    [][/\ \A v \in Validators : SlashedNotified[v] => SlashedNotified'[v]
       /\ SlashedNotified' # SlashedNotified =>
            /\ SlashedStep
            /\ SlashedNotified' =
                 [v \in Validators |-> SlashedNotified[v] \/ v \in slashedNow']]_vars

\* A member of SlashedNotified that the latest successful slashed query did
\* not report.
C28_Witness ==
    /\ outcome = "ok"
    /\ calls = {"GetSlashedValidators"}
    /\ slashedNow = {}
    /\ \E v \in Validators : SlashedNotified[v]


\* The validators with a duty of the call whose block response is one of these.
ProposersWith(responses) ==
    {duty.ValidatorIndex :
        duty \in {d \in call.proposerDuties : call.response[d.Slot] \in responses}}

\* C30: DidProposeBlock maps a 404 to (false, no error) and any other provider
\* failure to an error; in checkProposals a duty whose check returns an error
\* is put in neither the proposed nor the missed list, the remaining duties
\* are still evaluated, and checkProposals returns no error because of it.
C30_BlockCheckErrorsAreSoft ==
    (result.done /\ call.fn = "checkProposals") =>
        /\ \A duty \in call.proposerDuties :
            /\ call.response[duty.Slot] = "notFound"
                 => result.value.answers[duty.Slot] = "missed"
            /\ call.response[duty.Slot] = "failure"
                 => result.value.answers[duty.Slot] = "error"
        /\ result.value.proposed = ProposersWith({"block"})
        /\ result.value.missed = ProposersWith({"notFound", "empty"})
        /\ ~result.value.err

\* Two duties: the check of the first fails, the second slot has no block.
C30_Witness ==
    /\ result.done
    /\ call.fn = "checkProposals"
    /\ call.proposerDuties = {[Slot |-> 2, ValidatorIndex |-> 5],
                              [Slot |-> 3, ValidatorIndex |-> 9]}
    /\ call.response = (2 :> "failure" @@ 3 :> "notFound")
    /\ result.value.proposed = {}
    /\ result.value.missed = {9}
    /\ ~result.value.err


\* A step in which checkProposals answered and the proposal alerts were sent.
ProposalsStep ==
    pc = "proposals" /\ pc' = "slashed"

ProposedAlerts(alerts) ==
    {i \in AlertsOf(alerts, Proposal) : alerts[i].flag}

MissedAlerts(alerts) ==
    {i \in AlertsOf(alerts, Proposal) : ~alerts[i].flag}

\* C29: in every cycle that reaches proposal evaluation a duty whose block
\* check resolved is classified proposed or missed by its answer; with the
\* proposal kind enabled one 'proposed' alert with all proposed validators is
\* sent iff there is one, and one 'missed' alert with all missed validators
\* iff there is one (none with the kind disabled), whatever the state earlier
\* cycles left.  Stated for any tracked validator: it is in the payload of the
\* 'proposed' alert exactly when a duty of it was answered proposed, and in
\* that of the 'missed' alert exactly when a duty of it was answered missed.
C29_ProposalAlertsPerCycle ==
    [][(ProposalsStep /\ sampled' # NoSample) =>
        /\ AlertsOf(sent', Proposal) = 1..Len(sent')
        /\ \A i \in 1..Len(sent') :
            sent'[i].epoch = justifiedEpoch /\ sent'[i].validators # {}
        /\ Cardinality(ProposedAlerts(sent')) <= 1
        /\ Cardinality(MissedAlerts(sent')) <= 1
        /\ Proposal \notin notificationsEnabled => sent' = <<>>
        /\ Proposal \in notificationsEnabled =>
            /\ (\E i \in ProposedAlerts(sent') : sampled'.validator \in sent'[i].validators)
                 <=> "proposed" \in sampled'.answers
            /\ (\E i \in MissedAlerts(sent') : sampled'.validator \in sent'[i].validators)
                 <=> "missed" \in sampled'.answers]_vars

\* Validator 5 proposed at one slot and missed another while validators were
\* offline and validator 0 was in the slashing ledger: both alerts are sent.
C29_Witness ==
    /\ pc = "slashed"
    /\ sampled = [validator |-> 5, answers |-> {"proposed", "missed"}]
    /\ Len(sent) = 2
    /\ SomeOfflineState(PreviouslyAllLive, PreviouslyOffline)
    /\ SlashedNotified[0]

\* ------------------------------------------------ the goroutines of the loop
\* C24: cycles never overlap: at any time at most one invocation of
\* performChecks is in flight, it was called by the goroutine of Run, which is
\* inside that call for as long as it lasts (so a tick that arrives meanwhile
\* waits in ticker.C and starts nothing), and no goroutine but that one has
\* written a field of the DutiesChecker.
C24_CyclesNeverOverlap ==
    /\ Len(cycles) <= 1
    /\ cycles # <<>> => run = "performChecks" /\ cycles[1].by = Worker
    /\ writers \subseteq {Worker}

\* A further tick arrived after the one that started the cycle: it waits in
\* ticker.C while the one cycle is at its last provider call.
C24_Witness ==
    /\ ticks = 1
    /\ Len(cycles) = 1
    /\ cycles[1].stage = "slashed"
    /\ writers = {Worker}
    /\ lastRunHadError

\* C25: Run returns only from the select between cycles, never while
\* performChecks is in flight; and once the context is cancelled, with every
\* provider call in flight returning, Run eventually returns and main's wait
\* on the WaitGroup then completes.
C25_ShutdownTerminates ==
    /\ [][(run # "returned" /\ run' = "returned") =>
            (run = "select" /\ cycles = <<>>)]_vars
    /\ (ctxDone ~> (run = "returned" /\ mainAt = "exited"))

\* cancel() was called while performChecks waited for the liveness answer;
\* Run has returned since and main has left wg.Wait.
C25_Witness ==
    /\ cancelledAt = "liveness"
    /\ run = "returned"
    /\ wg = 0
    /\ mainAt = "exited"

\* ------------------------------------------------- the liveness state again
\* C32: in every reachable state exactly one of PreviouslyAllLive and
\* PreviouslyOffline is true, and the alerts of a step hold at most one
\* liveness alert (only the liveness stage of a cycle sends any).
C32_FlagsComplementary ==
    /\ PreviouslyAllLive # PreviouslyOffline
    /\ Cardinality(AlertsOf(sent, Liveness)) <= 1

\* The pair has left ALL_LIVE and come back: the 'back online' alert was the
\* only alert of the step that restored it.
C32_Witness ==
    /\ pc = "proposals"
    /\ AllLiveState(PreviouslyAllLive, PreviouslyOffline)
    /\ sent = <<LivenessNot({5, 9}, 1, TRUE)>>
    /\ SlashedNotified[0]

\* C33: the liveness state moves only ALL_LIVE -> SOME_OFFLINE and
\* SOME_OFFLINE -> ALL_LIVE, so its transitions alternate, the first one
\* leaving ALL_LIVE; and as long as every liveness evaluation so far ran with
\* the liveness kind enabled, a liveness alert is 'offline' when it is the
\* first or follows a 'back online' alert, and 'back online' when it follows
\* an 'offline' alert: no two consecutive alerts are of the same kind.
C33_LivenessAlertsAlternate ==
    [][/\ (PreviouslyAllLive' # PreviouslyAllLive
              \/ PreviouslyOffline' # PreviouslyOffline) =>
            (MovedOffline \/ MovedOnline)
       /\ (LivenessStep /\ ~livenessTrail'.disabled) =>
            /\ Cardinality(AlertsOf(sent', Liveness)) <= 1
            /\ \A i \in AlertsOf(sent', Liveness) :
                sent'[i].flag = (livenessTrail.last = "offline")]_vars

\* A 'back online' alert is sent, the kind having been enabled at every
\* evaluation: it follows the 'offline' alert of the edge that left ALL_LIVE.
C33_Witness ==
    /\ pc = "proposals"
    /\ livenessTrail = [last |-> "online", disabled |-> FALSE]
    /\ sent = <<LivenessNot({0, 9}, 1, TRUE)>>
    /\ AllLiveState(PreviouslyAllLive, PreviouslyOffline)

\* ------------------------------------------------------ the empty tracked set
\* A trigger that found no pubkeys, or no active validator among them.
NothingTracked(how) ==
    how \in {"noPubkeys", "noIndices"}

\* C34: a cycle that finds no pubkeys or no active validator issues no
\* liveness, proposer or slashing query, sends no alert, leaves the liveness
\* state and SlashedNotified as they were and ends without error with the
\* fetched epoch stored; the next trigger that fetches that epoch is skipped.
C34_EmptySetIsNoOp ==
    [][/\ (pc = "select" /\ NothingTracked(outcome')) =>
            /\ calls' \cap EvaluatorCalls = {}
            /\ sent' = <<>>
            /\ UNCHANGED <<PreviouslyAllLive, PreviouslyOffline, SlashedNotified>>
            /\ ~lastRunHadError'
            /\ lastJustifiedEpoch' = fetched'
       /\ (pc = "select" /\ NothingTracked(outcome)
              /\ fetched' = lastJustifiedEpoch) =>
            outcome' = "skipped"]_vars

\* The tracked set came back empty while the state was SOME_OFFLINE and
\* validator 0 in the slashing ledger, after a failed run: nothing was reset.
C34_Witness ==
    /\ pc = "select"
    /\ outcome = "noIndices"
    /\ fetched = 1
    /\ SomeOfflineState(PreviouslyAllLive, PreviouslyOffline)
    /\ SlashedNotified[0]
    /\ ~lastRunHadError

\* ------------------------------------------------ the alert policy is missing
\* A cycle whose GetNotificationsEnabled failed is under way.
WithoutPolicy ==
    outcome = "runningWithoutPolicy"

\* C35: in a cycle whose alert-policy fetch failed every evaluator is still
\* queried in turn, no alert of any kind is sent, the liveness state moves on
\* the edges the liveness result shows and SlashedNotified takes the slashed
\* answer; the cycle ends in error only when an evaluator failed, and without
\* error otherwise.
C35_PolicyFailureIsSoft ==
    [][WithoutPolicy =>
        /\ sent' = <<>>
        /\ pc = "liveness" => calls' = {"GetValidatorsLiveness"}
        /\ pc = "proposals" => "GetProposerDuties" \in calls'
        /\ pc = "slashed" => calls' = {"GetSlashedValidators"}
        /\ LivenessStep =>
            /\ MovedOffline <=> (offline' # {} /\ PreviouslyAllLive)
            /\ MovedOnline <=> (offline' = {} /\ PreviouslyOffline)
        /\ pc' = "select" =>
            /\ lastRunHadError' <=>
                 outcome' \in {"livenessError", "proposalsError", "slashedError"}
            /\ ~lastRunHadError' =>
                 /\ pc = "slashed"
                 /\ SlashedNotified' =
                      [v \in Validators |-> SlashedNotified[v] \/ v \in slashedNow']]_vars

\* The policy fetch failed, validators are offline and the state is
\* SOME_OFFLINE: the liveness evaluation ran and sent nothing.
C35_Witness ==
    /\ pc = "proposals"
    /\ WithoutPolicy
    /\ offline = {5}
    /\ SomeOfflineState(PreviouslyAllLive, PreviouslyOffline)
    /\ sent = <<>>
    /\ calls = {"GetValidatorsLiveness"}

\* ----------------------------------------------------- the first trigger
\* C36: the first trigger after process start, when its epoch fetch succeeds,
\* is not skipped: it stores the fetched epoch, whatever its value, and enters
\* performChecks for it.
C36_FirstEpochChecked ==
    [][(outcome = "init" /\ fetched' # NoEpoch) =>
        (outcome' # "skipped" /\ lastJustifiedEpoch' = fetched')]_vars

\* ------------------------------------------------------------- quiescence
\* The last trigger ended with every provider call answered: it was skipped,
\* or its cycle ran to the end of performChecks or to an empty tracked set.
Settled(how) ==
    how \in {"skipped", "ok", "noPubkeys", "noIndices"}

\* C37: a cycle in which every provider call succeeds ends with
\* lastRunHadError false and its epoch stored; from then on a trigger that
\* fetches that same epoch is skipped: it starts no cycle, issues no
\* evaluator call, sends no alert and leaves the engine state as it is, so
\* the same holds for the trigger after it.  Hence at most one full cycle
\* runs once the providers answer and the epoch stays fixed.
C37_QuiescenceAfterRecovery ==
    [][/\ (pc' = "select" /\ Settled(outcome')) =>
            (~lastRunHadError' /\ lastJustifiedEpoch' = fetched')
       /\ (pc = "select" /\ Settled(outcome) /\ fetched' = fetched) =>
            /\ pc' = "select"
            /\ outcome' = "skipped"
            /\ calls' \cap EvaluatorCalls = {}
            /\ sent' = <<>>
            /\ UNCHANGED engine]_vars

\* A trigger is skipped at epoch 1 after the cycles that left the state
\* SOME_OFFLINE and validator 0 in the slashing ledger.
C37_Witness ==
    /\ pc = "select"
    /\ outcome = "skipped"
    /\ fetched = 1
    /\ lastJustifiedEpoch = 1
    /\ ~lastRunHadError
    /\ SomeOfflineState(PreviouslyAllLive, PreviouslyOffline)
    /\ SlashedNotified[0]

\* ------------------------------------------------------ ticks after shutdown
\* C39: once the context is cancelled Run takes no tick: no trigger starts
\* (no epoch fetch, hence no performChecks), also when a tick is waiting in
\* ticker.C at the moment of the cancellation.
C39_NoCycleAfterShutdown ==
    [][ctxDone => ~(run = "select" /\ run' = "epoch")]_vars

\* ------------------------------------------------- the fetches of one cycle
CycleChecked ==
    call.fn = "checkAttestations" /\ result.done

\* C31: in one checkAttestations cycle no slot is asked of
\* GetBlockAttestations twice, however many duty windows hold it, and for
\* every duty slot at most one GetCommitteeSizeMap call succeeds: a call for
\* a slot follows only failed calls for that slot, the later duties of the
\* slot finding the map in the cache.
C31_FetchedOncePerCycle ==
    CycleChecked =>
        LET blockFetches == result.value.blockFetches
            asked == result.value.sizeFetches
        IN  /\ \A i, j \in 1..Len(blockFetches) :
                blockFetches[i] = blockFetches[j] => i = j
            /\ \A i, j \in 1..Len(asked) :
                (i < j /\ asked[i].slot = asked[j].slot) => asked[i].err

\* Validators 0 and 5 have their duty at slot 100, validator 9 at 101: the
\* call for validator 0 fails, the one for validator 5 is made and succeeds,
\* slot 101 is asked once.
C31_Witness ==
    /\ CycleChecked
    /\ Len(call.duties) = 3
    /\ call.duties[1].ValidatorIndex = 0
    /\ call.duties[2].ValidatorIndex = 5
    /\ result.value.sizeFetches = <<[slot |-> 100, err |-> TRUE],
                                    [slot |-> 100, err |-> FALSE],
                                    [slot |-> 101, err |-> FALSE]>>
    /\ Len(result.value.blockFetches) = 33

\* C38: every slot of the scan window of every duty of a checkAttestations
\* cycle is among the slots preloadSlotAttestations asked for, and is missing
\* from the cache the duties are evaluated on only if its fetch failed.
C38_PreloadCoversWindows ==
    CycleChecked =>
        \A k \in 1..Len(call.duties) : \A slot \in WindowOf(call.duties[k]) :
            /\ \E i \in 1..Len(result.value.blockFetches) :
                result.value.blockFetches[i] = slot
            /\ slot \notin DOMAIN result.value.slotAttestations
                 => slot \in call.failed

\* Duties at slots 101 and 100, in that order: the last slot of the later
\* window, 133, was asked for, and slot 105, whose fetch failed, is missing.
C38_Witness ==
    /\ CycleChecked
    /\ Len(call.duties) = 2
    /\ call.duties[1].Slot = 101
    /\ call.duties[2].Slot = 100
    /\ call.failed = {105}
    /\ result.value.blockFetches[33] = 133
    /\ DOMAIN result.value.slotAttestations = (101..133) \ {105}

====
